---------------------------- MODULE Spec2Model ----------------------------
(***************************************************************************)
(* Model of scripts/generate-api-types.js: the LuaCATS -> TypeScript       *)
(* declaration generator.                                                  *)
(*                                                                         *)
(* Text representation.  A JavaScript string is modelled as a sequence of  *)
(* lexemes.  A lexeme is either one punctuation character ("(", "|", " ",  *)
(* "-" ...) or one whole word ("number", "fun", "point" ...).  All string  *)
(* operations of the source (trim, indexOf, startsWith, endsWith, slice,   *)
(* the regular expressions) are modelled on lexeme sequences; the words    *)
(* used never contain one another, so the lexeme-level result is the       *)
(* character-level result.  JavaScript null / undefined / '' are all the   *)
(* empty sequence (the source only ever tests them for truthiness).        *)
(***************************************************************************)
EXTENDS Integers, Sequences, FiniteSets, TLC

VARIABLES
  srcType,             \* type translator: the type expression handed in (luaType)
  tsType,              \* type translator: convertLuaTypeToTS(srcType)
  funType,             \* type translator: parseFunType(srcType) when srcType is a fun type
  aliasTs,             \* type translator: convertLuaAliasToTS(srcType)
  unionParts,          \* type translator: splitUnion(srcType)
  commaParts,          \* type translator: splitByComma(srcType)
  translated,          \* type translator: the outputs above belong to srcType
  built,               \* type translator: constructors applied to build srcType
  lines,               \* parseApiFile: the lines consumed so far
  classes,             \* parseApiFile: Map name -> ParsedClass, in insertion order
  aliases,             \* parseApiFile: Map name -> alias, in insertion order
  currentClass,        \* parseApiFile: let currentClass
  currentDescription,  \* parseApiFile: let currentDescription
  detectedMainExport,  \* parseApiFile: let detectedMainExport
  pendingParams,       \* parseApiFile: let pendingParams
  pendingReturn,       \* parseApiFile: let pendingReturn
  modulePath,          \* main: the key of the MODULES entry being processed
  config,              \* main: the ModuleConfig of that entry
  filtered,            \* generateDeclaration: const filteredClasses
  declaration,         \* main: let declaration
  phase,               \* main: position in main and in the body of its loop
  targetModule,        \* main: const targetModule = args[0]
  queue,               \* main: the entries of modulesToProcess not yet visited
  successCount,        \* main: let successCount
  skipCount,           \* main: let skipCount
  errorCount,          \* main: let errorCount
  processed,           \* main: the entries visited so far with their outcome
  written,             \* main: the files written by fs.writeFileSync, in order
  exitCode,            \* the exit status of the process, Null while it runs
  availableRotations,  \* build-rotation main: const availableRotations
  debugMode,           \* build-rotation main: const debugMode
  targetRotation,      \* build-rotation main: const targetRotation
  rotationsToBuild,    \* build-rotation main: the rotations the loop has not yet taken
  rotation,            \* buildRotation: rotationName
  step,                \* build-rotation: position in main and in buildRotation
  steps,               \* buildRotation: the steps run so far, with their results
  builtCount,          \* build-rotation main: let successCount
  failCount,           \* build-rotation main: let failCount
  buildExit            \* build-rotation: the exit status of the process, Null while it runs

typeVars == <<srcType, tsType, funType, aliasTs, unionParts, commaParts, translated, built>>
parseVars == <<lines, classes, aliases, currentClass, currentDescription,
               detectedMainExport, pendingParams, pendingReturn>>
batchVars == <<targetModule, queue, successCount, skipCount, errorCount,
               processed, written, exitCode>>
emitVars == <<modulePath, config, filtered, declaration, phase, batchVars>>
buildVars ==
  <<availableRotations, debugMode, targetRotation, rotationsToBuild, rotation, step, steps,
    builtCount, failCount, buildExit>>
vars == <<typeVars, parseVars, emitVars, buildVars>>

Null == <<>>

\* main has not counted, visited or written anything
BatchIdle ==
  /\ targetModule = Null /\ queue = <<>>
  /\ successCount = 0 /\ skipCount = 0 /\ errorCount = 0
  /\ processed = <<>> /\ written = <<>> /\ exitCode = Null

\* build-rotation is not running
BuildIdle ==
  /\ availableRotations = <<>>
  /\ debugMode = FALSE /\ targetRotation = Null /\ rotationsToBuild = <<>>
  /\ rotation = Null /\ step = "idle" /\ steps = <<>>
  /\ builtCount = 0 /\ failCount = 0 /\ buildExit = Null

\* no module is being processed
EmitIdle ==
  /\ modulePath = Null /\ config = Null /\ filtered = <<>>
  /\ declaration = Null /\ phase = "idle"
  /\ BatchIdle

(***************************************************************************)
(* String primitives on lexeme sequences.                                  *)
(***************************************************************************)
Min(a, b) == IF a < b THEN a ELSE b
Max(a, b) == IF a > b THEN a ELSE b

\* String.prototype.startsWith
StartsWith(s, p) == Len(s) >= Len(p) /\ SubSeq(s, 1, Len(p)) = p

\* String.prototype.endsWith
EndsWith(s, p) == Len(s) >= Len(p) /\ SubSeq(s, Len(s) - Len(p) + 1, Len(s)) = p

\* String.prototype.indexOf, 1-based; 0 when p does not occur (JavaScript -1)
IndexOf(s, p) ==
  LET hits == {i \in 1..(Len(s) - Len(p) + 1) : SubSeq(s, i, i + Len(p) - 1) = p}
  IN IF hits = {} THEN 0 ELSE CHOOSE i \in hits : \A j \in hits : i <= j

\* String.prototype.lastIndexOf, 1-based; 0 when p does not occur
LastIndexOf(s, p) ==
  LET hits == {i \in 1..(Len(s) - Len(p) + 1) : SubSeq(s, i, i + Len(p) - 1) = p}
  IN IF hits = {} THEN 0 ELSE CHOOSE i \in hits : \A j \in hits : i >= j

\* String.prototype.includes
Includes(s, p) == IndexOf(s, p) # 0

\* String.prototype.trim
Trim(s) ==
  LET solid == {i \in 1..Len(s) : s[i] # " "}
  IN IF solid = {} THEN <<>>
     ELSE SubSeq(s, CHOOSE i \in solid : \A j \in solid : i <= j,
                    CHOOSE i \in solid : \A j \in solid : i >= j)

\* s.slice(from) with a 1-based first position
From(s, i) == SubSeq(s, i, Len(s))

\* Array.prototype.join
RECURSIVE Join(_, _)
Join(parts, sep) ==
  IF parts = <<>> THEN <<>>
  ELSE IF Len(parts) = 1 THEN parts[1]
  ELSE parts[1] \o sep \o Join(Tail(parts), sep)

\* [...new Set(xs)]: insertion order, first occurrence kept
DedupNone(xs) == xs
RECURSIVE DedupFrom(_, _)
DedupFrom(xs, acc) ==
  IF xs = <<>> THEN acc
  ELSE DedupFrom(Tail(xs),
                 IF \E i \in 1..Len(acc) : acc[i] = Head(xs) THEN acc
                 ELSE Append(acc, Head(xs)))
Dedup(xs) == DedupFrom(xs, <<>>)

Opening == {"(", "[", "{", "<"}
Closing == {")", "]", "}", ">"}


(***************************************************************************)
(* splitUnion / splitByComma: one pass with a depth counter shared by all  *)
(* four bracket kinds.                                                     *)
(***************************************************************************)
RECURSIVE SplitLoop(_, _, _, _, _, _, _, _)
SplitLoop(str, sep, opens, closes, i, parts, current, d) ==
  IF i > Len(str)
  THEN IF Trim(current) # <<>> THEN Append(parts, Trim(current)) ELSE parts
  ELSE LET char == str[i] IN
       IF char \in opens
       THEN SplitLoop(str, sep, opens, closes, i + 1, parts, Append(current, char), d + 1)
       ELSE IF char \in closes
       THEN SplitLoop(str, sep, opens, closes, i + 1, parts, Append(current, char), d - 1)
       ELSE IF char = sep /\ d = 0
       THEN SplitLoop(str, sep, opens, closes, i + 1, Append(parts, Trim(current)), <<>>, d)
       ELSE SplitLoop(str, sep, opens, closes, i + 1, parts, Append(current, char), d)

\* mutant: only round brackets are counted
splitUnionParensOnly(type) == SplitLoop(type, "|", {"("}, {")"}, 1, <<>>, <<>>, 0)
splitUnion(type) == SplitLoop(type, "|", Opening, Closing, 1, <<>>, <<>>, 0)

\* mutant: only round brackets are counted
splitByCommaParensOnly(str) == SplitLoop(str, ",", {"("}, {")"}, 1, <<>>, <<>>, 0)
splitByComma(str) == SplitLoop(str, ",", Opening, Closing, 1, <<>>, <<>>, 0)

\* findMatchingParen: 1-based position of the ")" closing the "(" at start; 0 for -1
RECURSIVE FindParenLoop(_, _, _)
FindParenLoop(str, i, d) ==
  IF i > Len(str) THEN 0
  ELSE LET d1 == IF str[i] = "(" THEN d + 1 ELSE d
           d2 == IF str[i] = ")" THEN d1 - 1 ELSE d1
       IN IF d2 = 0 THEN i ELSE FindParenLoop(str, i + 1, d2)
findMatchingParen(str, start) == FindParenLoop(str, start, 0)

(***************************************************************************)
(* Lexeme classes used by the regular expressions of the source.           *)
(***************************************************************************)
\* words that start with an upper-case letter followed by a lower-case one: [A-Z][a-z]
CapWords == {"Number", "Returns", "Foo"}
\* words that start with a lower-case letter or underscore: [a-z_]\w*
LowerWords == {"number", "integer", "string", "boolean", "any", "userdata", "table",
               "function", "nil", "void", "fun", "self", "public", "local", "end",
               "point", "foo", "bar", "length", "sub", "id", "x", "y", "n", "f", "a", "b",
               "the", "_G", "this", "new", "fo", "foo_bar"}
\* \w+
Words == CapWords \cup LowerWords \cup {"1"}
IsWord(c) == c \in Words

\* String.prototype.toLowerCase
LowerOf(c) == IF c = "Number" THEN "number"
              ELSE IF c = "Returns" THEN "returns"
              ELSE IF c = "Foo" THEN "foo" ELSE c
ToLowerCase(s) == [i \in 1..Len(s) |-> LowerOf(s[i])]

\* index of the first match of / [A-Z][a-z]/ (1-based), 0 when there is none
CapMatch(s) ==
  LET hits == {i \in 1..(Len(s) - 1) : s[i] = " " /\ s[i + 1] \in CapWords}
  IN IF hits = {} THEN 0 ELSE CHOOSE i \in hits : \A j \in hits : i <= j

\* sanitizeParamName
Reserved == {"break", "case", "catch", "class", "const", "continue", "debugger",
             "default", "delete", "do", "else", "enum", "export", "extends", "false",
             "finally", "for", "function", "if", "import", "in", "instanceof", "new",
             "null", "return", "super", "switch", "this", "throw", "true", "try",
             "typeof", "var", "void", "while", "with", "yield"}
sanitizeParamName(name) ==
  IF Len(name) = 1 /\ name[1] \in Reserved THEN <<"_">> \o name ELSE name

\* parseParams: the parameter records of a "fun(...)" parameter list
RECURSIVE ParamsLoop(_, _)
ParamsLoop(parts, params) ==
  IF parts = <<>> THEN params
  ELSE LET trimmed == Trim(Head(parts))
           colonIdx == IndexOf(trimmed, <<":">>)
       IN IF trimmed = <<>> THEN ParamsLoop(Tail(parts), params)
          ELSE IF StartsWith(trimmed, <<"...">>)
          THEN ParamsLoop(Tail(parts), Append(params,
                 IF colonIdx # 0
                 THEN [name |-> <<"...", "args">>,
                       type |-> Trim(From(trimmed, colonIdx + 1)) \o <<"[", "]">>,
                       optional |-> FALSE]
                 ELSE [name |-> <<"...", "args">>, type |-> <<"any", "[", "]">>,
                       optional |-> FALSE]))
          ELSE IF colonIdx # 0
          THEN LET name0 == Trim(SubSeq(trimmed, 1, colonIdx - 1))
                   type0 == Trim(From(trimmed, colonIdx + 1))
                   optional == EndsWith(name0, <<"?">>) \/ EndsWith(type0, <<"?">>)
                   name == IF EndsWith(name0, <<"?">>)
                           THEN SubSeq(name0, 1, Len(name0) - 1) ELSE name0
                   type == IF EndsWith(type0, <<"?">>)
                           THEN SubSeq(type0, 1, Len(type0) - 1) ELSE type0
               IN ParamsLoop(Tail(parts), Append(params,
                    [name |-> name, type |-> type, optional |-> optional]))
          ELSE ParamsLoop(Tail(parts), Append(params,
                 [name |-> trimmed, type |-> <<"any">>, optional |-> FALSE]))
parseParams(paramsStr) ==
  IF Trim(paramsStr) = <<>> THEN <<>> ELSE ParamsLoop(splitByComma(paramsStr), <<>>)


(***************************************************************************)
(* convertLuaTypeToTS and parseFunType (mutually recursive).               *)
(***************************************************************************)
RECURSIVE convertLuaTypeToTS(_), parseFunType(_)

\* parts.map(p => convertLuaTypeToTS(p.trim()))
ConvertAll(parts) == [i \in 1..Len(parts) |-> convertLuaTypeToTS(Trim(parts[i]))]

GenericCallable == <<"(", "...", "args", ":", " ", "any", "[", "]", ")", " ", "=>", " ", "any">>

\* trim, then strip " --..." and "  #..." inline comments
StripComment(luaType) ==
  LET t0 == Trim(luaType)
      commentIdx == IndexOf(t0, <<" ", "-", "-">>)
      t1 == IF commentIdx # 0 THEN Trim(SubSeq(t0, 1, commentIdx - 1)) ELSE t0
      hashIdx == IndexOf(t1, <<" ", " ", "#">>)
  IN IF hashIdx # 0 THEN Trim(SubSeq(t1, 1, hashIdx - 1)) ELSE t1

\* luaType.endsWith('| nil') || luaType.endsWith('|nil')
HasNilSuffix(t) == EndsWith(t, <<"|", " ", "nil">>) \/ EndsWith(t, <<"|", "nil">>)
\* `${convertLuaTypeToTS(luaType.replace(/\|\s*nil$/, '').trim())} | null`
NilSuffixType(t) ==
  convertLuaTypeToTS(Trim(SubSeq(t, 1, LastIndexOf(t, <<"|">>) - 1)))
    \o <<" ", "|", " ", "null">>

IsPrimitive(t) ==
  t \in {<<"number">>, <<"integer">>, <<"string">>, <<"boolean">>, <<"any">>,
         <<"userdata">>, <<"table">>, <<"function">>}
PrimitiveType(t) ==
  IF t = <<"number">> \/ t = <<"integer">> THEN <<"number">>
  ELSE IF t = <<"string">> THEN <<"string">>
  ELSE IF t = <<"boolean">> THEN <<"boolean">>
  ELSE IF t = <<"any">> THEN <<"any">>
  ELSE IF t = <<"userdata">> THEN <<"unknown">>
  ELSE IF t = <<"table">> THEN <<"object">>
  ELSE GenericCallable

\* luaType.endsWith('?') && !luaType.includes('|')
IsOptional(t) == EndsWith(t, <<"?">>) /\ ~Includes(t, <<"|">>)
OptionalType(t) ==
  convertLuaTypeToTS(SubSeq(t, 1, Len(t) - 1)) \o <<" ", "|", " ", "undefined">>

\* luaType.includes('|') with more than one part
IsUnion(t) == Includes(t, <<"|">>) /\ Len(splitUnion(t)) > 1
UnionType(t) == Join(Dedup(ConvertAll(splitUnion(t))), <<" ", "|", " ">>)

\* luaType.startsWith('(') && luaType.endsWith(')')
IsParenthesized(t) == StartsWith(t, <<"(">>) /\ EndsWith(t, <<")">>)
ParenthesizedType(t) ==
  LET inner == SubSeq(t, 2, Len(t) - 1)
      parts == splitByComma(inner)
  IN IF Len(parts) > 1
     THEN <<"LuaMultiReturn", "<", "[">> \o Join(ConvertAll(parts), <<",", " ">>)
            \o <<"]", ">">>
     ELSE convertLuaTypeToTS(inner)

\* luaType.match(/^(.+)\[\]$/)
IsArray(t) == Len(t) >= 3 /\ EndsWith(t, <<"[", "]">>)
ArrayType(t) == convertLuaTypeToTS(SubSeq(t, 1, Len(t) - 2)) \o <<"[", "]">>

\* luaType.startsWith('table<') && luaType.endsWith('>') with exactly two parts
IsTableOf(t) ==
  /\ StartsWith(t, <<"table", "<">>) /\ EndsWith(t, <<">">>)
  /\ Len(splitByComma(SubSeq(t, 3, Len(t) - 1))) = 2
TableType(t) ==
  LET parts == splitByComma(SubSeq(t, 3, Len(t) - 1))
  IN <<"Record", "<">> \o convertLuaTypeToTS(Trim(parts[1])) \o <<",", " ">>
       \o convertLuaTypeToTS(Trim(parts[2])) \o <<">">>

\* luaType.startsWith('fun(') || luaType.startsWith('fun ')
IsFunType(t) == StartsWith(t, <<"fun", "(">>) \/ StartsWith(t, <<"fun", " ">>)

\* mutant: the union rule is tried before the trailing "| nil" rule
convertUnionBeforeNil(luaType) ==
  LET t == StripComment(luaType) IN
  IF t = <<>> THEN <<"void">>
  ELSE IF t = <<"nil">> THEN <<"void">>
  ELSE IF IsUnion(t) THEN UnionType(t)
  ELSE IF HasNilSuffix(t) THEN NilSuffixType(t)
  ELSE IF IsPrimitive(t) THEN PrimitiveType(t)
  ELSE IF IsOptional(t) THEN OptionalType(t)
  ELSE IF IsParenthesized(t) THEN ParenthesizedType(t)
  ELSE IF IsArray(t) THEN ArrayType(t)
  ELSE IF IsTableOf(t) THEN TableType(t)
  ELSE IF IsFunType(t) THEN parseFunType(t)
  ELSE t

\* mutant: an expression that no rule recognizes becomes the dynamic type
convertUnknownToAny(luaType) ==
  LET t == StripComment(luaType) IN
  IF t = <<>> THEN <<"void">>
  ELSE IF t = <<"nil">> THEN <<"void">>
  ELSE IF HasNilSuffix(t) THEN NilSuffixType(t)
  ELSE IF IsPrimitive(t) THEN PrimitiveType(t)
  ELSE IF IsOptional(t) THEN OptionalType(t)
  ELSE IF IsUnion(t) THEN UnionType(t)
  ELSE IF IsParenthesized(t) THEN ParenthesizedType(t)
  ELSE IF IsArray(t) THEN ArrayType(t)
  ELSE IF IsTableOf(t) THEN TableType(t)
  ELSE IF IsFunType(t) THEN parseFunType(t)
  ELSE <<"any">>

convertLuaTypeToTS(luaType) ==
  LET t == StripComment(luaType) IN
  IF t = <<>> THEN <<"void">>
  ELSE IF t = <<"nil">> THEN <<"void">>
  ELSE IF HasNilSuffix(t) THEN NilSuffixType(t)
  ELSE IF IsPrimitive(t) THEN PrimitiveType(t)
  ELSE IF IsOptional(t) THEN OptionalType(t)
  ELSE IF IsUnion(t) THEN UnionType(t)
  ELSE IF IsParenthesized(t) THEN ParenthesizedType(t)
  ELSE IF IsArray(t) THEN ArrayType(t)
  ELSE IF IsTableOf(t) THEN TableType(t)
  ELSE IF IsFunType(t) THEN parseFunType(t)
  ELSE t

\* the return clause of parseFunType: rest is the text after the closing ")"
FunReturnType(rest) ==
  IF ~StartsWith(rest, <<":">>) THEN <<"void">>
  ELSE LET r0 == Trim(From(rest, 2))
           luaCommentIdx == IndexOf(r0, <<" ", "-", "-">>)
           r1 == IF luaCommentIdx # 0 THEN Trim(SubSeq(r0, 1, luaCommentIdx - 1)) ELSE r0
           descIdx == CapMatch(r1)
           returnStr == IF descIdx # 0 THEN Trim(SubSeq(r1, 1, descIdx - 1)) ELSE r1
           returnParts == splitByComma(returnStr)
       IN IF Len(returnParts) > 1
          THEN <<"LuaMultiReturn", "<", "[">> \o Join(ConvertAll(returnParts), <<",", " ">>)
                 \o <<"]", ">">>
          ELSE convertLuaTypeToTS(returnStr)

\* params.map(...): one rendered entry per parameter
TsParam(p) ==
  IF p.name = <<"self">> THEN <<"this", ":", " ">> \o p.type
  ELSE sanitizeParamName(p.name) \o (IF p.optional THEN <<"?">> ELSE <<>>)
         \o <<":", " ">> \o convertLuaTypeToTS(p.type)

\* the rendered entries, with `this: void` put first when params[0] is not self
TsParams(params) ==
  LET mapped == [i \in 1..Len(params) |-> TsParam(params[i])]
  IN IF Len(params) = 0 \/ params[1].name # <<"self">>
     THEN <<<<"this", ":", " ", "void">>>> \o mapped
     ELSE mapped

parseFunType(luaType) ==
  LET startParen == IndexOf(luaType, <<"(">>)
      endParen == IF startParen = 0 THEN 0 ELSE findMatchingParen(luaType, startParen)
  IN IF startParen = 0 \/ endParen = 0 THEN GenericCallable
     ELSE LET paramsStr == SubSeq(luaType, startParen + 1, endParen - 1)
              rest == Trim(From(luaType, endParen + 1))
          IN <<"(">> \o Join(TsParams(parseParams(paramsStr)), <<",", " ">>)
               \o <<")", " ", "=>", " ">> \o FunReturnType(rest)


(***************************************************************************)
(* parseApiFile: the classes Map, kept as a sequence in insertion order.   *)
(***************************************************************************)
NewClass(className) ==
  [name |-> className, fields |-> <<>>, dataFields |-> <<>>, indexSignatures |-> <<>>]

\* classes.has(name)
HasClass(cs, className) == \E i \in 1..Len(cs) : cs[i].name = className
ClassIndex(cs, className) == CHOOSE i \in 1..Len(cs) : cs[i].name = className
\* classes.get(name)
GetClass(cs, className) == cs[ClassIndex(cs, className)]
\* if (!classes.has(name)) classes.set(name, {...})
EnsureClass(cs, className) ==
  IF HasClass(cs, className) THEN cs ELSE Append(cs, NewClass(className))
\* the Map with the entry of className replaced by cls
PutClass(cs, cls) == [cs EXCEPT ![ClassIndex(cs, cls.name)] = cls]

\* aliases.set(name, alias): a new key goes last, an existing key keeps its place
SetAlias(as, alias) ==
  IF \E i \in 1..Len(as) : as[i].name = alias.name
  THEN [as EXCEPT ![CHOOSE i \in 1..Len(as) : as[i].name = alias.name] = alias]
  ELSE Append(as, alias)

(***************************************************************************)
(* The regular expressions of parseApiFile, on lexeme sequences.           *)
(***************************************************************************)
NoMatch == [ok |-> FALSE]

\* first position >= i that holds no blank (Len(s) + 1 when there is none): \s*
SkipBlanks(s, i) ==
  LET solid == {j \in i..Len(s) : s[j] # " "}
  IN IF solid = {} THEN Len(s) + 1 ELSE CHOOSE j \in solid : \A k \in solid : j <= k

\* first position >= i that holds a blank (Len(s) + 1 when there is none): \S*
SkipSolid(s, i) ==
  LET blank == {j \in i..Len(s) : s[j] = " "}
  IN IF blank = {} THEN Len(s) + 1 ELSE CHOOSE j \in blank : \A k \in blank : j <= k

\* first position >= i that holds neither a word nor a dot: [\w.]*
SkipPath(s, i) ==
  LET other == {j \in i..Len(s) : ~(IsWord(s[j]) \/ s[j] = ".")}
  IN IF other = {} THEN Len(s) + 1 ELSE CHOOSE j \in other : \A k \in other : j <= k

At(s, i) == IF i >= 1 /\ i <= Len(s) THEN s[i] ELSE ""

\* paramsStr.split(',').map(p => p.trim()).filter(p => p)
RECURSIVE SplitNames(_, _, _)
SplitNames(str, current, names) ==
  IF str = <<>>
  THEN IF Trim(current) # <<>> THEN Append(names, Trim(current)) ELSE names
  ELSE IF Head(str) = ","
  THEN SplitNames(Tail(str), <<>>,
                  IF Trim(current) # <<>> THEN Append(names, Trim(current)) ELSE names)
  ELSE SplitNames(Tail(str), Append(current, Head(str)), names)

\* the "\s*\(([^)]*)\)" tail shared by both declaration patterns, from position i
ParamListAt(s, i) ==
  LET open == SkipBlanks(s, i)
      close == IF At(s, open) = "(" THEN IndexOf(From(s, open), <<")">>) ELSE 0
  IN IF close = 0 THEN NoMatch
     ELSE [ok |-> TRUE, paramsStr |-> SubSeq(s, open + 1, open + close - 2)]

\* /^function\s+([\w.]+)\.(\w+)\s*\(([^)]*)\)/
funcDeclMatch(s) ==
  LET start == SkipBlanks(s, 2)
      stop == SkipPath(s, start)
      tail == ParamListAt(s, stop)
  IN IF /\ At(s, 1) = "function" /\ At(s, 2) = " "
        /\ stop - start >= 3
        /\ IsWord(s[stop - 1]) /\ s[stop - 2] = "."
        /\ tail.ok
     THEN [ok |-> TRUE,
           classPath |-> SubSeq(s, start, stop - 3),
           methodName |-> <<s[stop - 1]>>,
           paramsStr |-> tail.paramsStr]
     ELSE NoMatch

\* classPath.split('.') and its last element
LastOfPath(classPath) ==
  LET last == classPath[Len(classPath)]
  IN IF last = "." THEN <<>> ELSE <<last>>

\* /^function\s+(\w+):(\w+)\s*\(([^)]*)\)/
funcColonMatch(s) ==
  LET start == SkipBlanks(s, 2)
      tail == ParamListAt(s, start + 3)
  IN IF /\ At(s, 1) = "function" /\ At(s, 2) = " "
        /\ IsWord(At(s, start)) /\ At(s, start + 1) = ":" /\ IsWord(At(s, start + 2))
        /\ tail.ok
     THEN [ok |-> TRUE,
           className |-> <<s[start]>>,
           methodName |-> <<s[start + 2]>>,
           paramsStr |-> tail.paramsStr]
     ELSE NoMatch

\* /^(\w+)\.(\w+)\s*=\s*\{\s*\}$/
subclassAssignMatch(s) ==
  LET eq == SkipBlanks(s, 4)
      open == SkipBlanks(s, eq + 1)
      close == SkipBlanks(s, open + 1)
  IN IF /\ IsWord(At(s, 1)) /\ At(s, 2) = "." /\ IsWord(At(s, 3))
        /\ At(s, eq) = "=" /\ At(s, open) = "{" /\ At(s, close) = "}"
        /\ close = Len(s)
     THEN [ok |-> TRUE, parentClassName |-> <<s[1]>>, fieldName |-> <<s[3]>>]
     ELSE NoMatch

\* trimmed.startsWith('---')
IsDocLine(s) == StartsWith(s, <<"-", "-", "-">>)
\* trimmed === '' || trimmed.startsWith('--') || trimmed.startsWith('_G.')
IsSkippedLine(s) == s = <<>> \/ StartsWith(s, <<"-", "-">>) \/ StartsWith(s, <<"_G", ".">>)
\* trimmed.replace(/^---\s*/, '')
LineContent(s) == From(s, SkipBlanks(s, 4))

\* "@keyword\s+" at the start of c: the position after the blanks, 0 when absent
AfterKeyword(c, keyword) ==
  IF At(c, 1) = "@" /\ At(c, 2) = keyword /\ At(c, 3) = " " THEN SkipBlanks(c, 3) ELSE 0

\* /^@type\s+(\w+)/
typeMatch(c) ==
  LET i == AfterKeyword(c, "type")
  IN IF i # 0 /\ IsWord(At(c, i)) THEN [ok |-> TRUE, name |-> <<c[i]>>] ELSE NoMatch

\* /^@alias\s+(\w+)\s+(.+)$/
aliasMatch(c) ==
  LET i == AfterKeyword(c, "alias")
      j == SkipBlanks(c, i + 1)
  IN IF i # 0 /\ IsWord(At(c, i)) /\ At(c, i + 1) = " " /\ j <= Len(c)
     THEN [ok |-> TRUE, name |-> <<c[i]>>, type |-> From(c, j)]
     ELSE NoMatch

\* /^@class\s+(\w+)/
classMatch(c) ==
  LET i == AfterKeyword(c, "class")
  IN IF i # 0 /\ IsWord(At(c, i)) THEN [ok |-> TRUE, name |-> <<c[i]>>] ELSE NoMatch

\* (\w+\??) at position i: the name with its "?" and the position after it
NameAt(c, i) ==
  IF ~IsWord(At(c, i)) THEN NoMatch
  ELSE IF At(c, i + 1) = "?" THEN [ok |-> TRUE, text |-> <<c[i], "?">>, next |-> i + 2]
  ELSE [ok |-> TRUE, text |-> <<c[i]>>, next |-> i + 1]

\* /^@param\s+(\w+\??)\s+(\S+)(?:\s+(.*))?$/
paramMatch(c) ==
  LET i == AfterKeyword(c, "param")
      nm == IF i # 0 THEN NameAt(c, i) ELSE NoMatch
      j == IF nm.ok THEN SkipBlanks(c, nm.next) ELSE 0
  IN IF nm.ok /\ At(c, nm.next) = " " /\ j <= Len(c)
     THEN [ok |-> TRUE, name |-> nm.text, type |-> SubSeq(c, j, SkipSolid(c, j) - 1)]
     ELSE NoMatch

\* /^@return\s+(.+)$/
returnMatch(c) ==
  LET i == AfterKeyword(c, "return")
  IN IF i # 0 /\ i <= Len(c) THEN [ok |-> TRUE, text |-> From(c, i)] ELSE NoMatch

\* "@field\s+" followed by "public\s+": the position after it, 0 when absent
AfterPublic(c) ==
  LET i == AfterKeyword(c, "field")
  IN IF i # 0 /\ At(c, i) = "public" /\ At(c, i + 1) = " " THEN SkipBlanks(c, i + 1) ELSE 0

\* "\[(\w+)\]\s+(.+)$" from position i
IndexSigAt(c, i) ==
  LET j == SkipBlanks(c, i + 3)
  IN IF /\ i # 0 /\ At(c, i) = "[" /\ IsWord(At(c, i + 1)) /\ At(c, i + 2) = "]"
        /\ At(c, i + 3) = " " /\ j <= Len(c)
     THEN [ok |-> TRUE, keyType |-> <<c[i + 1]>>, valueType |-> From(c, j)]
     ELSE NoMatch

\* /^@field\s+(?:public\s+)?\[(\w+)\]\s+(.+)$/
indexSigMatch(c) ==
  IF IndexSigAt(c, AfterPublic(c)).ok THEN IndexSigAt(c, AfterPublic(c))
  ELSE IndexSigAt(c, AfterKeyword(c, "field"))

\* "(\w+\??)\s+(.+)$" from position i
FieldAt(c, i) ==
  LET nm == IF i # 0 THEN NameAt(c, i) ELSE NoMatch
      j == IF nm.ok THEN SkipBlanks(c, nm.next) ELSE 0
  IN IF nm.ok /\ At(c, nm.next) = " " /\ j <= Len(c)
     THEN [ok |-> TRUE, name |-> nm.text, type |-> From(c, j)]
     ELSE NoMatch

\* /^@field\s+(?:public\s+)?(\w+\??)\s+(.+)$/
fieldMatch(c) ==
  IF FieldAt(c, AfterPublic(c)).ok THEN FieldAt(c, AfterPublic(c))
  ELSE FieldAt(c, AfterKeyword(c, "field"))

(***************************************************************************)
(* parseApiFile: the handlers of the line loop.  The state of the loop is  *)
(* handed around as one record st.                                         *)
(***************************************************************************)
\* currentDescription.join(' ') || undefined
DescriptionOf(st) == Join(st.currentDescription, <<" ">>)

\* pendingParams.find(p => p.name === paramName), rendered as "name[?]: type"
ParamTypeOf(pending, paramName) ==
  LET hits == {i \in 1..Len(pending) : pending[i].name = paramName}
  IN IF hits = {} THEN paramName \o <<":", " ", "any">>
     ELSE LET paramInfo == pending[CHOOSE i \in hits : \A j \in hits : i <= j]
          IN paramName \o (IF paramInfo.optional THEN <<"?">> ELSE <<>>)
               \o <<":", " ">> \o paramInfo.type

ParamTypes(pending, paramsStr) ==
  LET paramNames == SplitNames(paramsStr, <<>>, <<>>)
  IN [i \in 1..Len(paramNames) |-> ParamTypeOf(pending, paramNames[i])]

\* pendingReturn || 'void'
ReturnTypeOf(st) == IF st.pendingReturn = Null THEN <<"void">> ELSE st.pendingReturn

\* cls.fields.push({name, type, description, isMethod: true})
PushMethod(cs, className, methodName, funTypeText, description) ==
  LET cls == GetClass(cs, className)
  IN PutClass(cs, [cls EXCEPT !.fields =
       Append(@, [name |-> methodName, type |-> funTypeText,
                  description |-> description, isMethod |-> TRUE])])

\* mutant: the pending annotations survive the attach
ClearPendingKeepsParams(st) ==
  [st EXCEPT !.pendingReturn = Null, !.currentDescription = <<>>]
\* pendingParams = []; pendingReturn = null; currentDescription = [];
ClearPending(st) ==
  [st EXCEPT !.pendingParams = <<>>, !.pendingReturn = Null, !.currentDescription = <<>>]

\* function Class.method(params): no implicit self
DotDeclaration(st, m) ==
  LET className == LastOfPath(m.classPath)
      cs == EnsureClass(st.classes, className)
      funTypeText == <<"fun", "(">> \o Join(ParamTypes(st.pendingParams, m.paramsStr), <<",", " ">>)
                       \o <<")", ":", " ">> \o ReturnTypeOf(st)
  IN ClearPending([st EXCEPT !.classes =
       PushMethod(cs, className, m.methodName, funTypeText, DescriptionOf(st))])

\* function Class:method(params): implicit self typed as the class
ColonDeclaration(st, m) ==
  LET cs == EnsureClass(st.classes, m.className)
      paramTypes == ParamTypes(st.pendingParams, m.paramsStr)
      funTypeText == <<"fun", "(", "self", ":", " ">> \o m.className
                       \o (IF Len(paramTypes) > 0
                           THEN <<",", " ">> \o Join(paramTypes, <<",", " ">>) ELSE <<>>)
                       \o <<")", ":", " ">> \o ReturnTypeOf(st)
  IN ClearPending([st EXCEPT !.classes =
       PushMethod(cs, m.className, m.methodName, funTypeText, DescriptionOf(st))])

\* mutant: the assignment line is taken as any other line that flushes
SubclassAssignmentAsFlush(st, m) == ClearPending(st)
\* Outer.Inner = {} while a class is active: Inner becomes a data field of Outer
SubclassAssignment(st, m) ==
  LET cs == EnsureClass(st.classes, m.parentClassName)
      parentCls == GetClass(cs, m.parentClassName)
  IN [st EXCEPT !.classes = PutClass(cs, [parentCls EXCEPT !.dataFields =
       Append(@, [name |-> m.fieldName, type |-> st.currentClass,
                  description |-> Null, optional |-> FALSE])])]

\* mutant: a flushing line forgets the description and the return type only
FlushKeepsParams(st) ==
  [st EXCEPT !.currentDescription = <<>>, !.pendingReturn = Null]
\* any other non-doc line: currentDescription = []; pendingParams = []; pendingReturn = null
Flush(st) ==
  [st EXCEPT !.currentDescription = <<>>, !.pendingParams = <<>>, !.pendingReturn = Null]

\* @type Name
TypeDirective(st, m) == [st EXCEPT !.detectedMainExport = m.name]

\* @alias Name TypeExpr
AliasDirective(st, m) ==
  [st EXCEPT !.aliases = SetAlias(@, [name |-> m.name, type |-> Trim(m.type)])]

\* mutant: the class becomes current without an entry in classes
ClassDirectiveSetsOnly(st, m) == [st EXCEPT !.currentClass = m.name]
\* @class Name
ClassDirective(st, m) ==
  [st EXCEPT !.currentClass = m.name, !.classes = EnsureClass(@, m.name)]

\* @param name[?] Type
ParamDirective(st, m) ==
  LET isOptional == EndsWith(m.name, <<"?">>)
      paramName == IF isOptional THEN SubSeq(m.name, 1, Len(m.name) - 1) ELSE m.name
  IN [st EXCEPT !.pendingParams =
        Append(@, [name |-> paramName, type |-> m.type, optional |-> isOptional])]

\* first match of / [A-Z][a-z]| --/ (1-based), 0 when there is none
DescOrCommentMatch(s) ==
  LET c == CapMatch(s)
      d == IndexOf(s, <<" ", "-", "-">>)
  IN IF c = 0 THEN d ELSE IF d = 0 THEN c ELSE Min(c, d)

typeKeywords == {"nil", "string", "number", "boolean", "integer", "any", "void", "table",
                 "function"}

\* returnTypeStr.match(/[>\]\w]\s+\w/)
HasEmbeddedWords(s) ==
  \E i \in 1..Len(s) :
    /\ s[i] \in {">", "]"} \/ IsWord(s[i])
    /\ At(s, i + 1) = " "
    /\ IsWord(At(s, SkipBlanks(s, i + 1)))

\* the clean-up of the text of an @return line
CleanReturn(text) ==
  LET r0 == Trim(text)
      descIdx == DescOrCommentMatch(r0)
      r1 == IF descIdx # 0 THEN Trim(SubSeq(r0, 1, descIdx - 1)) ELSE r0
      r2 == IF /\ Len(r1) >= 2 /\ r1[Len(r1) - 1] = " "
               /\ r1[Len(r1)] \in LowerWords /\ r1[Len(r1)] \notin typeKeywords
            THEN Trim(SubSeq(r1, 1, Len(r1) - 2)) ELSE r1
  IN IF HasEmbeddedWords(r2) THEN <<"any">> ELSE r2

\* @return TypeExpr
ReturnDirective(st, m) == [st EXCEPT !.pendingReturn = CleanReturn(m.text)]

\* @field [KeyType] ValueType
IndexSigDirective(st, m) ==
  LET cls == GetClass(st.classes, st.currentClass)
  IN [st EXCEPT !.classes = PutClass(@, [cls EXCEPT !.indexSignatures =
       Append(@, [keyType |-> m.keyType, valueType |-> Trim(m.valueType)])])]

\* fieldType.includes('self:') || fieldType.includes('self :')
HasSelf(t) == Includes(t, <<"self", ":">>) \/ Includes(t, <<"self", " ", ":">>)

\* mutant: a function-typed field is pushed whether or not the name is taken
FieldDirectiveAlwaysPushes(st, m) ==
  LET cls == GetClass(st.classes, st.currentClass)
      method == [name |-> m.name, type |-> Trim(m.type), description |-> DescriptionOf(st),
                 isMethod |-> TRUE]
  IN [st EXCEPT !.classes = PutClass(@, [cls EXCEPT !.fields = Append(@, method)]),
                !.currentDescription = <<>>]
\* @field name[?] Type
FieldDirective(st, m) ==
  LET cls == GetClass(st.classes, st.currentClass)
      isOptional == EndsWith(m.name, <<"?">>)
      fieldName == IF isOptional THEN SubSeq(m.name, 1, Len(m.name) - 1) ELSE m.name
      fieldType == Trim(m.type)
      description == DescriptionOf(st)
      existing == {i \in 1..Len(cls.fields) : cls.fields[i].name = fieldName}
      method == [name |-> fieldName, type |-> fieldType, description |-> description,
                 isMethod |-> TRUE]
      descIdx == CapMatch(fieldType)
      cleanType == IF descIdx # 0 THEN Trim(SubSeq(fieldType, 1, descIdx - 1)) ELSE fieldType
      inlineDesc == IF descIdx # 0 THEN Trim(From(fieldType, descIdx)) ELSE Null
      cls2 ==
        IF IsFunType(fieldType)
        THEN IF existing # {}
             THEN LET existingIdx == CHOOSE i \in existing : \A j \in existing : i <= j
                  IN IF HasSelf(fieldType) /\ ~HasSelf(cls.fields[existingIdx].type)
                     THEN [cls EXCEPT !.fields[existingIdx] = method]
                     ELSE cls
             ELSE [cls EXCEPT !.fields = Append(@, method)]
        ELSE [cls EXCEPT !.dataFields =
               Append(@, [name |-> fieldName, type |-> cleanType,
                          description |-> IF description # Null THEN description
                                          ELSE inlineDesc,
                          optional |-> isOptional])]
  IN [st EXCEPT !.classes = PutClass(@, cls2), !.currentDescription = <<>>]

\* mutant: every doc line that is no directive is collected
DescriptionLineCollectsAll(st, c) ==
  IF Trim(c) # <<>> THEN [st EXCEPT !.currentDescription = Append(@, Trim(c))] ELSE st
\* a doc line that is no directive: free text is collected, anything else is ignored
DescriptionLine(st, c) ==
  IF ~StartsWith(c, <<"@">>) /\ Trim(c) # <<>>
  THEN [st EXCEPT !.currentDescription = Append(@, Trim(c))]
  ELSE st

(***************************************************************************)
(* parseApiFile: which handler the loop body takes for one line, the loop  *)
(* body, and the whole function.                                           *)
(***************************************************************************)
LineKind(st, line) ==
  LET trimmed == Trim(line)
      c == LineContent(trimmed)
  IN IF funcDeclMatch(trimmed).ok THEN "dotDeclaration"
     ELSE IF funcColonMatch(trimmed).ok THEN "colonDeclaration"
     ELSE IF subclassAssignMatch(trimmed).ok /\ st.currentClass # Null THEN "subclassAssignment"
     ELSE IF ~IsDocLine(trimmed)
     THEN IF IsSkippedLine(trimmed) THEN "skip" ELSE "flush"
     ELSE IF typeMatch(c).ok THEN "type"
     ELSE IF aliasMatch(c).ok THEN "alias"
     ELSE IF classMatch(c).ok THEN "class"
     ELSE IF paramMatch(c).ok THEN "param"
     ELSE IF returnMatch(c).ok THEN "return"
     ELSE IF indexSigMatch(c).ok /\ st.currentClass # Null THEN "indexSignature"
     ELSE IF fieldMatch(c).ok /\ st.currentClass # Null THEN "field"
     ELSE "description"

ParseLine(st, line) ==
  LET trimmed == Trim(line)
      c == LineContent(trimmed)
      kind == LineKind(st, line)
  IN IF kind = "dotDeclaration" THEN DotDeclaration(st, funcDeclMatch(trimmed))
     ELSE IF kind = "colonDeclaration" THEN ColonDeclaration(st, funcColonMatch(trimmed))
     ELSE IF kind = "subclassAssignment" THEN SubclassAssignment(st, subclassAssignMatch(trimmed))
     ELSE IF kind = "skip" THEN st
     ELSE IF kind = "flush" THEN Flush(st)
     ELSE IF kind = "type" THEN TypeDirective(st, typeMatch(c))
     ELSE IF kind = "alias" THEN AliasDirective(st, aliasMatch(c))
     ELSE IF kind = "class" THEN ClassDirective(st, classMatch(c))
     ELSE IF kind = "param" THEN ParamDirective(st, paramMatch(c))
     ELSE IF kind = "return" THEN ReturnDirective(st, returnMatch(c))
     ELSE IF kind = "indexSignature" THEN IndexSigDirective(st, indexSigMatch(c))
     ELSE IF kind = "field" THEN FieldDirective(st, fieldMatch(c))
     ELSE DescriptionLine(st, c)

\* the state of the loop before the first line
FreshParser ==
  [classes |-> <<>>, aliases |-> <<>>, currentClass |-> Null, currentDescription |-> <<>>,
   detectedMainExport |-> Null, pendingParams |-> <<>>, pendingReturn |-> Null]

RECURSIVE ParseLines(_, _)
ParseLines(st, content) ==
  IF content = <<>> THEN st ELSE ParseLines(ParseLine(st, Head(content)), Tail(content))

\* return { classes, aliases, detectedMainExport }
ResultOf(st) ==
  [classes |-> st.classes, aliases |-> st.aliases, detectedMainExport |-> st.detectedMainExport]

parseApiFile(content) == ResultOf(ParseLines(FreshParser, content))

(***************************************************************************)
(* parseApiFile as a state machine: one action per handler of the loop,    *)
(* each consuming one line of a bounded pool.                              *)
(***************************************************************************)
MaxLines == 3

Doc == <<"-", "-", "-", " ">>
LClass == Doc \o <<"@", "class", " ", "point">>
LFieldX == Doc \o <<"@", "field", " ", "x", " ", "integer">>
LFieldN == Doc \o <<"@", "field", " ", "n", " ", "Number">>
LParamSelf == Doc \o <<"@", "param", " ", "self", " ", "point">>
LParamX == Doc \o <<"@", "param", " ", "x", " ", "number">>
LReturn == Doc \o <<"@", "return", " ", "number">>
LType == Doc \o <<"@", "type", " ", "point">>
LAlias == Doc \o <<"@", "alias", " ", "id", " ", "number">>
LIndexSig == Doc \o <<"@", "field", " ", "[", "string", "]", " ", "number">>
LFieldFun ==
  Doc \o <<"@", "field", " ", "f", " ", "fun", "(", "self", ":", " ", "point", ")", ":", " ",
           "number">>
LFieldFunPlain ==
  Doc \o <<"@", "field", " ", "f", " ", "fun", "(", "x", ":", " ", "number", ")", ":", " ",
           "number">>
LFieldF == Doc \o <<"@", "field", " ", "f", " ", "integer">>
LText == Doc \o <<"the", " ", "length">>
LColonSelf == <<"function", " ", "point", ":", "length", "(", "self", ")", " ", "end">>
LColon == <<"function", " ", "point", ":", "length", "(", "x", ")">>
LDot == <<"function", " ", "point", ".", "length", "(", "x", ")">>
LSub == <<"point", ".", "sub", " ", "=", " ", "{", "}">>
LGlobalSub == <<"_G", ".", "x", " ", "=", " ", "{", "}">>
LLocal == <<"local", " ", "x", " ", "=", " ", "1">>
LBlank == <<>>
LParamBare == Doc \o <<"@", "param", " ", "x">>
LAliasBare == Doc \o <<"@", "alias", " ", "id">>
LClassBare == Doc \o <<"@", "class">>
LReturnUnion == Doc \o <<"@", "return", " ", "number", " ", "|", " ", "point">>
LReturnTable == Doc \o <<"@", "return", " ", "table", "<", "string", ",", " ", "Foo", ">">>

LinePool ==
  {LClass, LFieldX, LFieldN, LParamSelf, LParamX, LReturn, LType, LAlias, LIndexSig,
   LFieldFun, LFieldFunPlain, LFieldF, LText, LColonSelf, LColon, LDot, LSub, LGlobalSub,
   LLocal, LBlank, LParamBare, LAliasBare, LClassBare, LReturnUnion, LReturnTable}

ParserState ==
  [classes |-> classes, aliases |-> aliases, currentClass |-> currentClass,
   currentDescription |-> currentDescription, detectedMainExport |-> detectedMainExport,
   pendingParams |-> pendingParams, pendingReturn |-> pendingReturn]

\* the loop body has run for line: the handler's result becomes the state
Consume(line, st) ==
  /\ lines' = Append(lines, line)
  /\ classes' = st.classes
  /\ aliases' = st.aliases
  /\ currentClass' = st.currentClass
  /\ currentDescription' = st.currentDescription
  /\ detectedMainExport' = st.detectedMainExport
  /\ pendingParams' = st.pendingParams
  /\ pendingReturn' = st.pendingReturn
  /\ UNCHANGED <<buildVars, typeVars, emitVars>>

\* LineKind reads of the state only whether a class is active: the handler of
\* every line of the pool, with and without an active class
KindsOfPool ==
  [active \in BOOLEAN |->
     [l \in LinePool |->
        LineKind([FreshParser EXCEPT !.currentClass = IF active THEN <<"point">> ELSE Null], l)]]

\* the lines of the pool for which the loop body takes the handler `kind`
Taking(kind) ==
  IF Len(lines) < MaxLines
  THEN {l \in LinePool : KindsOfPool[currentClass # Null][l] = kind}
  ELSE {}

DotDeclarationLine ==
  \E l \in Taking("dotDeclaration") :
    Consume(l, DotDeclaration(ParserState, funcDeclMatch(Trim(l))))
ColonDeclarationLine ==
  \E l \in Taking("colonDeclaration") :
    Consume(l, ColonDeclaration(ParserState, funcColonMatch(Trim(l))))
SubclassAssignmentLine ==
  \E l \in Taking("subclassAssignment") :
    Consume(l, SubclassAssignment(ParserState, subclassAssignMatch(Trim(l))))
SkippedLine == \E l \in Taking("skip") : Consume(l, ParserState)
FlushLine == \E l \in Taking("flush") : Consume(l, Flush(ParserState))
TypeLine ==
  \E l \in Taking("type") :
    Consume(l, TypeDirective(ParserState, typeMatch(LineContent(Trim(l)))))
AliasLine ==
  \E l \in Taking("alias") :
    Consume(l, AliasDirective(ParserState, aliasMatch(LineContent(Trim(l)))))
ClassLine ==
  \E l \in Taking("class") :
    Consume(l, ClassDirective(ParserState, classMatch(LineContent(Trim(l)))))
ParamLine ==
  \E l \in Taking("param") :
    Consume(l, ParamDirective(ParserState, paramMatch(LineContent(Trim(l)))))
ReturnLine ==
  \E l \in Taking("return") :
    Consume(l, ReturnDirective(ParserState, returnMatch(LineContent(Trim(l)))))
IndexSigLine ==
  \E l \in Taking("indexSignature") :
    Consume(l, IndexSigDirective(ParserState, indexSigMatch(LineContent(Trim(l)))))
FieldLine ==
  \E l \in Taking("field") :
    Consume(l, FieldDirective(ParserState, fieldMatch(LineContent(Trim(l)))))
TextLine ==
  \E l \in Taking("description") :
    Consume(l, DescriptionLine(ParserState, LineContent(Trim(l))))

TypeIdle ==
  /\ srcType = <<>> /\ tsType = Null /\ funType = Null /\ aliasTs = Null
  /\ unionParts = <<>> /\ commaParts = <<>> /\ translated = FALSE /\ built = 0

Init ==
  /\ lines = <<>>
  /\ classes = <<>>
  /\ aliases = <<>>
  /\ currentClass = Null
  /\ currentDescription = <<>>
  /\ detectedMainExport = Null
  /\ pendingParams = <<>>
  /\ pendingReturn = Null
  /\ TypeIdle
  /\ EmitIdle
  /\ BuildIdle

Next ==
  \/ DotDeclarationLine \/ ColonDeclarationLine \/ SubclassAssignmentLine
  \/ SkippedLine \/ FlushLine
  \/ TypeLine \/ AliasLine \/ ClassLine \/ ParamLine \/ ReturnLine
  \/ IndexSigLine \/ FieldLine \/ TextLine

Spec == Init /\ [][Next]_vars

(***************************************************************************)
(* Class filtering, enum detection and declaration generation.  The output *)
(* is built as a sequence of lines and joined with "\n".                   *)
(***************************************************************************)
\* the characters of the words that class names and patterns are made of; any
\* other lexeme is one character
Chars(w) ==
  IF w = "fo" THEN <<"f", "o">>
  ELSE IF w = "foo" THEN <<"f", "o", "o">>
  ELSE IF w = "foo_bar" THEN <<"f", "o", "o", "_", "b", "a", "r">>
  ELSE IF w = "point" THEN <<"p", "o", "i", "n", "t">>
  ELSE <<w>>

\* a name or a pattern, character by character
RECURSIVE Spell(_)
Spell(s) == IF s = <<>> THEN <<>> ELSE Chars(Head(s)) \o Spell(Tail(s))

\* mutant: a pattern is only ever compared as a whole
matchesFilterExactOnly(className, patterns) ==
  \E i \in 1..Len(patterns) : Spell(className) = Spell(patterns[i])

\* for (const pattern of patterns) ... return true / return false
matchesFilter(className, patterns) ==
  \E i \in 1..Len(patterns) :
    IF EndsWith(Spell(patterns[i]), <<"*">>)
    THEN StartsWith(Spell(className),
                    SubSeq(Spell(patterns[i]), 1, Len(Spell(patterns[i])) - 1))
    ELSE Spell(className) = Spell(patterns[i])

\* !filterPatterns || filterPatterns.length === 0 is written filterPatterns = <<>>
filterClasses(cs, filterPatterns) ==
  IF filterPatterns = <<>> THEN cs
  ELSE SelectSeq(cs, LAMBDA cls : matchesFilter(cls.name, filterPatterns))

\* mutant: the methods of the class are not looked at
isEnumLikeIgnoringMethods(cls) ==
  /\ Len(cls.dataFields) > 0
  /\ Len(cls.indexSignatures) = 0
  /\ \A i \in 1..Len(cls.dataFields) :
       Trim(ToLowerCase(cls.dataFields[i].type)) \in {<<"number">>, <<"integer">>}

isEnumLikeClass(cls) ==
  LET hasDataFields == Len(cls.dataFields) > 0
      hasMethods == Len(cls.fields) > 0
      hasIndexSigs == Len(cls.indexSignatures) > 0
  IN IF ~hasDataFields \/ hasMethods \/ hasIndexSigs THEN FALSE
     ELSE \A i \in 1..Len(cls.dataFields) :
            LET fieldType == Trim(ToLowerCase(cls.dataFields[i].type))
            IN ~(fieldType # <<"number">> /\ fieldType # <<"integer">>)

\* lines.push(...) of every element of a sequence of line lists
RECURSIVE Flatten(_)
Flatten(lists) == IF lists = <<>> THEN <<>> ELSE Head(lists) \o Flatten(Tail(lists))

\* the optional "  /** description */" line of a field
DescriptionComment(field) ==
  IF field.description # Null
  THEN << <<" ", " ", "/**", " ">> \o field.description \o <<" ", "*/">> >>
  ELSE <<>>

generateEnum(className, cls) ==
  << <<"declare", " ", "enum", " ">> \o className \o <<" ", "{">> >>
  \o Flatten([i \in 1..Len(cls.dataFields) |->
       DescriptionComment(cls.dataFields[i])
       \o << <<" ", " ">> \o cls.dataFields[i].name \o <<",">> >>])
  \o << <<"}">> >>

RESERVED_METHOD_NAMES ==
  {<<"new">>, <<"delete">>, <<"default">>, <<"class">>, <<"function">>, <<"return">>,
   <<"typeof">>, <<"import">>, <<"export">>}

\* methodSig.slice(0, lastArrowIdx) + '): ' + methodSig.slice(lastArrowIdx + 5)
ReplaceLastArrow(sig, lastArrowIdx) ==
  IF lastArrowIdx # 0
  THEN SubSeq(sig, 1, lastArrowIdx - 1) \o <<")", ":", " ">> \o From(sig, lastArrowIdx + 4)
  ELSE sig

\* funType.replace(/^\(/, '')
DropOpeningParen(arrow) == IF StartsWith(arrow, <<"(">>) THEN From(arrow, 2) ELSE arrow

SigOfArrow(sig) == ReplaceLastArrow(sig, LastIndexOf(sig, <<")", " ", "=>", " ">>))

\* the method signature of generateInterface: parseFunType's arrow form turned
\* into "params): returnType"
MethodSig(field) == SigOfArrow(DropOpeningParen(parseFunType(field.type)))

MethodLine(field) ==
  LET methodName == IF field.name \in RESERVED_METHOD_NAMES
                    THEN <<"\"">> \o field.name \o <<"\"">> ELSE field.name
  IN <<" ", " ">> \o methodName \o <<"(">> \o MethodSig(field) \o <<";">>

IndexSignatureEntry(sig) ==
  <<" ", " ", "[", "key", ":", " ">> \o convertLuaTypeToTS(sig.keyType) \o <<"]", ":", " ">>
    \o convertLuaTypeToTS(sig.valueType) \o <<";">>

\* if (enumClasses.has(tsType)) tsType = `typeof ${tsType}`
TypeofEnum(converted, enumClasses) ==
  IF converted \in enumClasses THEN <<"typeof", " ">> \o converted ELSE converted

DataFieldLine(field, enumClasses) ==
  <<" ", " ">> \o field.name \o (IF field.optional THEN <<"?">> ELSE <<>>)
    \o <<":", " ">> \o TypeofEnum(convertLuaTypeToTS(field.type), enumClasses) \o <<";">>

generateInterface(className, cls, enumClasses) ==
  << <<"interface", " ">> \o className \o <<" ", "{">> >>
  \o [i \in 1..Len(cls.indexSignatures) |-> IndexSignatureEntry(cls.indexSignatures[i])]
  \o Flatten([i \in 1..Len(cls.dataFields) |->
       DescriptionComment(cls.dataFields[i])
       \o <<DataFieldLine(cls.dataFields[i], enumClasses)>>])
  \o Flatten([i \in 1..Len(cls.fields) |->
       DescriptionComment(cls.fields[i]) \o <<MethodLine(cls.fields[i])>>])
  \o << <<"}">> >>

\* one "name: type" entry of an object-like alias, <<>> when the part has no colon
AliasField(part) ==
  LET colonIdx == IndexOf(part, <<":">>)
  IN IF colonIdx # 0
     THEN << Trim(SubSeq(part, 1, colonIdx - 1)) \o <<":", " ">>
             \o convertLuaTypeToTS(Trim(From(part, colonIdx + 1))) >>
     ELSE <<>>

AliasUnionMember(part) ==
  LET trimmed == Trim(part)
  IN IF IsFunType(trimmed) THEN <<"(">> \o parseFunType(trimmed) \o <<")">>
     ELSE convertLuaTypeToTS(trimmed)

convertLuaAliasToTS(aliasType) ==
  LET t == Trim(aliasType)
  IN IF StartsWith(t, <<"{">>) /\ EndsWith(t, <<"}">>)
     THEN LET inner == Trim(SubSeq(t, 2, Len(t) - 1))
              parts == splitByComma(inner)
          IN IF inner = <<>> THEN <<"{", "}">>
             ELSE <<"{", " ">>
                    \o Join(Flatten([i \in 1..Len(parts) |-> AliasField(parts[i])]),
                            <<";", " ">>)
                    \o <<" ", "}">>
     ELSE IF Includes(t, <<"|">>) /\ Includes(t, <<"fun", "(">>)
     THEN LET parts == splitUnion(t)
          IN Join(Dedup([i \in 1..Len(parts) |-> AliasUnionMember(parts[i])]),
                  <<" ", "|", " ">>)
     ELSE convertLuaTypeToTS(t)

\* the header of every declaration unit
HeaderSection(cfg) ==
  << <<"//", " ", "Auto-generated", " ", "from", " ", "Sylvanas", " ", "API">>,
     <<"//", " ", "Source", ":", " ">> \o cfg.file,
     <<"//", " ", "Do", " ", "not", " ", "edit", " ", "manually">>,
     <<>> >>

AliasSection(as) ==
  IF Len(as) > 0
  THEN [i \in 1..Len(as) |->
          <<"type", " ">> \o as[i].name \o <<" ", "=", " ">>
            \o convertLuaAliasToTS(as[i].type) \o <<";">>]
       \o << <<>> >>
  ELSE <<>>

\* first pass: the names of the enum-like classes
EnumClasses(filteredClasses) ==
  {filteredClasses[i].name : i \in {j \in 1..Len(filteredClasses) :
                                      isEnumLikeClass(filteredClasses[j])}}

EnumSection(filteredClasses, enumClasses) ==
  Flatten([i \in 1..Len(filteredClasses) |->
    IF filteredClasses[i].name \in enumClasses
    THEN generateEnum(filteredClasses[i].name, filteredClasses[i]) \o << <<>> >>
    ELSE <<>>])

InterfaceSection(filteredClasses, enumClasses) ==
  Flatten([i \in 1..Len(filteredClasses) |->
    IF filteredClasses[i].name \notin enumClasses
    THEN generateInterface(filteredClasses[i].name, filteredClasses[i], enumClasses)
           \o << <<>> >>
    ELSE <<>>])

\* mutant: the detected name is taken whether or not the class is present
MainExportUnchecked(cfg, detected, filteredClasses) ==
  IF cfg.mainExport # Null THEN cfg.mainExport ELSE detected

\* let mainExport = config.mainExport; if (!mainExport && detectedMainExport && ...has(...))
MainExport(cfg, detected, filteredClasses) ==
  IF cfg.mainExport = Null /\ detected # Null /\ HasClass(filteredClasses, detected)
  THEN detected
  ELSE cfg.mainExport

GlobalVarSection(cfg, mainExport) ==
  IF cfg.declareGlobalVar /\ mainExport # Null
  THEN << <<"//", " ", "Global", " ", "variable", " ", "declaration">>,
          <<"declare", " ", "const", " ">> \o mainExport \o <<":", " ">> \o mainExport
            \o <<";">>,
          <<>> >>
  ELSE <<>>

ModuleSection(path, mainExport) ==
  IF mainExport # Null
  THEN << <<"//", " ", "Module", " ", "declaration", " ", "for", " ", "imports">>,
          <<"declare", " ", "module", " ", "\"">> \o path \o <<"\"", " ", "{">>,
          <<" ", " ", "const", " ", "_default", ":", " ">> \o mainExport \o <<";">>,
          <<" ", " ", "export", " ", "=", " ", "_default", ";">>,
          <<"}">>,
          <<>> >>
  ELSE <<>>

\* mutant: the interfaces are written ahead of the aliases and the enums
generateDeclarationInterfacesFirst(path, cfg, parseResult) ==
  LET filteredClasses == filterClasses(parseResult.classes, cfg.filterClasses)
      enumClasses == EnumClasses(filteredClasses)
      mainExport == MainExport(cfg, parseResult.detectedMainExport, filteredClasses)
  IN Join(HeaderSection(cfg)
          \o InterfaceSection(filteredClasses, enumClasses)
          \o AliasSection(parseResult.aliases)
          \o EnumSection(filteredClasses, enumClasses)
          \o GlobalVarSection(cfg, mainExport)
          \o ModuleSection(path, mainExport), <<"\n">>)

generateDeclaration(path, cfg, parseResult) ==
  LET filteredClasses == filterClasses(parseResult.classes, cfg.filterClasses)
      enumClasses == EnumClasses(filteredClasses)
      mainExport == MainExport(cfg, parseResult.detectedMainExport, filteredClasses)
  IN Join(HeaderSection(cfg)
          \o AliasSection(parseResult.aliases)
          \o EnumSection(filteredClasses, enumClasses)
          \o InterfaceSection(filteredClasses, enumClasses)
          \o GlobalVarSection(cfg, mainExport)
          \o ModuleSection(path, mainExport), <<"\n">>)

(***************************************************************************)
(* Post-processing.  A regular expression is a sequence of elements, each  *)
(* [k, c]: "lit" matches the text c, "lazy" is `.*?`, "not" is `[^c]*`,    *)
(* "some" is `[^c]+` and "ws" is `\s*`.                                    *)
(***************************************************************************)
Lits(text) == [k |-> "lit", c |-> text]
Lazy == [k |-> "lazy", c |-> ""]
NotOf(ch) == [k |-> "not", c |-> ch]
SomeNot(ch) == [k |-> "some", c |-> ch]
Blanks == [k |-> "ws", c |-> ""]

\* the lexemes one element of kind e can run over
Admits(e, ch) ==
  IF e.k = "lazy" THEN ch # "\n"
  ELSE IF e.k = "ws" THEN ch \in {" ", "\n"}
  ELSE ch # e.c

\* the position after the match of pat[j..] that starts at position i of text,
\* chosen as a backtracking matcher chooses it; 0 when there is none
RECURSIVE MatchFrom(_, _, _, _)
MatchFrom(text, i, pat, j) ==
  IF j > Len(pat) THEN i
  ELSE IF pat[j].k = "lit"
  THEN IF StartsWith(From(text, i), pat[j].c)
       THEN MatchFrom(text, i + Len(pat[j].c), pat, j + 1)
       ELSE 0
  ELSE LET least == IF pat[j].k = "some" THEN i + 1 ELSE i
           ends == {e \in least..(Len(text) + 1) :
                      /\ \A q \in i..(e - 1) : Admits(pat[j], text[q])
                      /\ MatchFrom(text, e, pat, j + 1) # 0}
       IN IF ends = {} THEN 0
          ELSE IF pat[j].k = "lazy"
          THEN MatchFrom(text, CHOOSE e \in ends : \A o \in ends : e <= o, pat, j + 1)
          ELSE MatchFrom(text, CHOOSE e \in ends : \A o \in ends : e >= o, pat, j + 1)

\* the leftmost position >= i at which pat matches, 0 when there is none
FirstMatch(text, i, pat) ==
  LET starts == {b \in i..Len(text) : MatchFrom(text, b, pat, 1) # 0}
  IN IF starts = {} THEN 0 ELSE CHOOSE b \in starts : \A o \in starts : b <= o

\* the text put in place of the match at b: before, then group 1 (it starts
\* `skip` lexemes into the match and ends with element `group` of the
\* pattern), then after
Replacement(text, b, rule) ==
  rule.before
    \o (IF rule.group = 0 THEN <<>>
        ELSE SubSeq(text, b + rule.skip,
                    MatchFrom(text, b, SubSeq(rule.pat, 1, rule.group), 1) - 1))
    \o rule.after

\* String.prototype.replace with a regular expression: the first match only, or
\* with the g flag every match, left to right, none overlapping another
RECURSIVE ReplaceFrom(_, _, _)
ReplaceFrom(text, i, rule) ==
  LET b == FirstMatch(text, i, rule.pat)
      e == MatchFrom(text, b, rule.pat, 1)
  IN IF b = 0 THEN From(text, i)
     ELSE SubSeq(text, i, b - 1) \o Replacement(text, b, rule)
            \o (IF rule.global THEN ReplaceFrom(text, e, rule) ELSE From(text, e))

Replace(text, rule) == ReplaceFrom(text, 1, rule)

\* content = content.replace(...) for every rule, in order
RECURSIVE ReplaceEach(_, _, _)
ReplaceEach(text, rules, i) ==
  IF i > Len(rules) \/ Len(text) = 0 THEN text   \* no pattern matches in the empty text
  ELSE ReplaceEach(Replace(text, rules[i]), rules, i + 1)

\* a pattern without group: every match becomes `to`
Rule(pat, to, global) ==
  [pat |-> pat, group |-> 0, skip |-> 0, before |-> <<>>, after |-> to, global |-> global]

(***************************************************************************)
(* The four patches.                                                       *)
(***************************************************************************)
OUTPUT_DIR == <<"types">>

postProcessOwMenuApi(content) ==
  ReplaceEach(content,
    <<Rule(<<Lits(<<"opts", "?", ":", " ", "{", ")", ":">>)>>,
           <<"opts", "?", ":", " ", "object", ")", ":">>, TRUE),
      Rule(<<Lits(<<"opts", "?", ":", " ", "{", ",", " ">>)>>,
           <<"opts", "?", ":", " ", "object", ",", " ">>, TRUE)>>, 1)

postProcessKickExternalFiltersHelper(content) ==
  Replace(content,
    Rule(<<Lits(<<",", " ", "string", "|", "nil", ":", " ", "any", ",">>)>>, <<",">>, TRUE))

\* /: string "([^"]+)";/g becomes `: "$1";`
QuotedStringRule ==
  [pat |-> <<Lits(<<":", " ", "string", " ", "\"">>), SomeNot("\""), Lits(<<"\"", ";">>)>>,
   skip |-> 5, group |-> 2, before |-> <<":", " ", "\"">>, after |-> <<"\"", ";">>, global |-> TRUE]

postProcessSpellSequenceHelper(content) ==
  ReplaceEach(content,
    <<Rule(<<Lits(<<"game_object", " ", "|", " ", "(", "this", ":", " ", "void",
             ")", " ", "=>", " ", "game_object">>)>>,
           <<"game_object", " ", "|", " ", "(", "(", "this", ":", " ",
             "void", ")", " ", "=>", " ", "game_object", ")">>, TRUE),
      QuotedStringRule>>, 1)

\* the replacements of fixed text, each of the first occurrence only
IziLiteralRules ==
  <<Rule(<<Lits(<<"type", " ", "adv_condition", " ", "=", " ", "boolean", " ",
                "|", " ", "(", "this", ":", " ", "void", ",", " ", "u", ":",
                " ", "game_object", ")", " ", "=>", " ", "boolean", ";">>)>>,
         <<"type", " ", "adv_condition", " ", "=", " ", "boolean", " ", "|",
           " ", "(", "(", "this", ":", " ", "void", ",", " ", "u", ":", " ",
           "game_object", ")", " ", "=>", " ", "boolean", ")", ";">>, FALSE),
    Rule(<<Lits(<<"skip_back", "?", ":", " ", "boolean", " ", "validated", " ",
                "in", " ", "is_castable_to_unit", ";">>)>>,
         <<"skip_back", "?", ":", " ", "boolean", ";">>, FALSE),
    Rule(<<Lits(<<"is_spell_in_range", "(", "this", ":", " ", "game_object",
                ",", " ", "spell", ":", " ", "number", " ", "|", " ",
                "izi_spell", " ", "|", " ", "{", "id", ":", "fun", "(",
                "self", ")", ":", "integer", "}", ")", ":", " ", "boolean",
                ";">>)>>,
         <<"is_spell_in_range", "(", "this", ":", " ", "game_object", ",",
           " ", "spell", ":", " ", "number", " ", "|", " ", "izi_spell", " ",
           "|", " ", "{", " ", "id", ":", " ", "(", "this", ":", " ", "any",
           ")", " ", "=>", " ", "number", " ", "}", ")", ":", " ", "boolean",
           ";">>, FALSE),
    Rule(<<Lits(<<"vec2", ":", " ", "vec2", " ", "|", " ", "(", "this", ":",
                " ", "void", ",", " ", "x", ":", " ", "number", ",", " ",
                "y", ":", " ", "number", ")", " ", "=>", " ", "vec2", ";">>)>>,
         <<"vec2", ":", " ", "vec2", " ", "|", " ", "(", "(", "this", ":",
           " ", "void", ",", " ", "x", ":", " ", "number", ",", " ", "y",
           ":", " ", "number", ")", " ", "=>", " ", "vec2", ")", ";">>, FALSE),
    Rule(<<Lits(<<"vec3", ":", " ", "vec3", " ", "|", " ", "(", "this", ":",
                " ", "void", ",", " ", "x", ":", " ", "number", ",", " ",
                "y", ":", " ", "number", ",", " ", "z", ":", " ", "number",
                ")", " ", "=>", " ", "vec3", ";">>)>>,
         <<"vec3", ":", " ", "vec3", " ", "|", " ", "(", "(", "this", ":",
           " ", "void", ",", " ", "x", ":", " ", "number", ",", " ", "y",
           ":", " ", "number", ",", " ", "z", ":", " ", "number", ")", " ",
           "=>", " ", "vec3", ")", ";">>, FALSE),
    Rule(<<Lits(<<"circle", ":", " ", "circle", " ", "|", " ", "(", "this",
                ":", " ", "void", ",", " ", "center", ":", " ", "vec3", ",",
                " ", "radius", ":", " ", "number", ")", " ", "=>", " ",
                "circle", ";">>)>>,
         <<"circle", ":", " ", "circle", " ", "|", " ", "(", "(", "this",
           ":", " ", "void", ",", " ", "center", ":", " ", "vec3", ",", " ",
           "radius", ":", " ", "number", ")", " ", "=>", " ", "circle", ")",
           ";">>, FALSE),
    Rule(<<Lits(<<"rectangle", ":", " ", "rectangle", " ", "|", " ", "(",
                "this", ":", " ", "void", ",", " ", "min", ":", " ", "vec3",
                ",", " ", "max", ":", " ", "vec3", ")", " ", "=>", " ",
                "rectangle", ";">>)>>,
         <<"rectangle", ":", " ", "rectangle", " ", "|", " ", "(", "(",
           "this", ":", " ", "void", ",", " ", "min", ":", " ", "vec3", ",",
           " ", "max", ":", " ", "vec3", ")", " ", "=>", " ", "rectangle",
           ")", ";">>, FALSE),
    Rule(<<Lits(<<"cone", ":", " ", "cone", " ", "|", " ", "(", "this", ":",
                " ", "void", ",", " ", "origin", ":", " ", "vec3", ",", " ",
                "direction", ":", " ", "vec3", ",", " ", "angle", ":", " ",
                "number", ",", " ", "range", ":", " ", "number", ")", " ",
                "=>", " ", "cone", ";">>)>>,
         <<"cone", ":", " ", "cone", " ", "|", " ", "(", "(", "this", ":",
           " ", "void", ",", " ", "origin", ":", " ", "vec3", ",", " ",
           "direction", ":", " ", "number", ",", " ", "range", ":", " ",
           "number", ")", " ", "=>", " ", "cone", ")", ";">>, FALSE)>>

eventHandlers ==
  <<"on_buff_gain", "on_buff_lose", "on_debuff_gain", "on_debuff_lose",
    "on_combat_start", "on_combat_finish", "on_spell_begin",
    "on_spell_success", "on_spell_cancel">>

ArrowTail == <<")", " ", "=>", " ", "(", "this", ":", " ", "void", ")", ":", " ", "void", ";">>

\* `${handler}\(this: void, cb: .*?\) => \(this: void\): void;` with the g flag
EventHandlerRule(handler) ==
  Rule(<<Lits(<<handler>> \o <<"(", "this", ":", " ", "void", ",", " ", "cb", ":", " ">>), Lazy,
         Lits(ArrowTail)>>,
       <<handler>> \o <<"(", "this", ":", " ", "void", ",", " ", "cb", ":",
                        " ", "(", "this", ":", " ", "void", ",", " ", "ev",
                        ":", " ", "any", ")", " ", "=>", " ", "void", ")",
                        ":", " ", "(", ")", " ", "=>", " ", "void", ";">>,
       TRUE)

KeyReleaseRule ==
  Rule(<<Lits(<<"on_key_release", "(", "this", ":", " ", "void", ",", " ", "key", ":", " ">>), Lazy,
         Lits(ArrowTail)>>,
       <<"on_key_release", "(", "this", ":", " ", "void", ",", " ", "key",
         ":", " ", "number", " ", "|", " ", "string", ",", " ", "cb", ":",
         " ", "(", "this", ":", " ", "void", ",", " ", "key", ":", " ",
         "number", " ", "|", " ", "string", ")", " ", "=>", " ", "void", ")",
         ":", " ", "(", ")", " ", "=>", " ", "void", ";">>,
       FALSE)

AfterRule ==
  Rule(<<Lits(<<"after", "(", "this", ":", " ", "void", ",", " ", "seconds",
              ":", " ", "number", ",", " ", "fn", ":", " ", "(", "this", ":",
              " ", "void", ")", " ", "=>", " ", "void", ")", " ", "=>", " ",
              "(", "this", ":", " ", "void", ")", ":", " ", "void", ";">>)>>,
       <<"after", "(", "this", ":", " ", "void", ",", " ", "seconds", ":",
         " ", "number", ",", " ", "fn", ":", " ", "(", "this", ":", " ",
         "void", ")", " ", "=>", " ", "void", ")", ":", " ", "(", ")", " ",
         "=>", " ", "void", ";">>,
       FALSE)

cc5Methods ==
  <<"is_cc", "isCC", "crowd_controlled", "isCrowdControlled", "is_cc_weak",
    "isWeakCC", "weak_cc", "is_rooted", "rooted", "isRooted", "is_stunned",
    "stunned", "isStunned", "is_feared", "feared", "isFeared", "is_sapped",
    "sapped", "isSapped", "is_silenced", "silenced", "isSilenced",
    "is_cycloned", "cycloned", "isCycloned", "is_disarmed", "disarmed",
    "isDisarmed", "is_disoriented", "isDisorient", "isDisoriented",
    "is_incap", "is_incapacitated", "isIncapacitated", "immune_cc",
    "isCCImmune">>

ccReductionMethods ==
  <<"get_cc_reduction", "cc_reduction", "getCCReduce", "getCCReduction">>

slowBoolMethods ==
  <<"is_slowed", "isSlowed", "slowed">>

slowNumMethods ==
  <<"get_slow", "slow_mult", "getSlow">>

slowImmuneMethods ==
  <<"is_slow_immune", "slow_immune", "isSlowImmune">>

dmgReductionMethods ==
  <<"get_damage_reduction", "getDRPct", "dmg_reduction", "dmgRed",
    "getDamageReduction">>

dmgImmuneMethods ==
  <<"isImmune", "isDamageImmune", "immune_dmg">>

\* `(${method}\([^)]*\)):\s*\([^;]*,;` with the g flag becomes
\* `$1: LuaMultiReturn<[...]>;`
TupleRule(method, tuple) ==
  [pat |-> <<Lits(<<method, "(">>), NotOf(")"), Lits(<<")">>), Lits(<<":">>), Blanks,
             Lits(<<"(">>), NotOf(";"), Lits(<<",", ";">>)>>,
   skip |-> 0, group |-> 3, before |-> <<>>,
   after |-> <<":", " ", "LuaMultiReturn", "<", "[">> \o tuple \o <<"]", ">", ";">>,
   global |-> TRUE]

TupleRules(methods, tuple) == [i \in 1..Len(methods) |-> TupleRule(methods[i], tuple)]

IziSdkRules ==
  IziLiteralRules
    \o [i \in 1..Len(eventHandlers) |-> EventHandlerRule(eventHandlers[i])]
    \o <<KeyReleaseRule, AfterRule>>
    \o TupleRules(cc5Methods, <<"boolean", ",", " ", "number", ",", " ", "number", ",", " ", "boolean", ",", " ", "boolean">>)
    \o TupleRules(ccReductionMethods, <<"number", ",", " ", "number", ",", " ", "number">>)
    \o TupleRules(slowBoolMethods, <<"boolean", ",", " ", "number", ",", " ", "number">>)
    \o TupleRules(slowNumMethods, <<"number", ",", " ", "number">>)
    \o TupleRules(slowImmuneMethods, <<"boolean", ",", " ", "number">>)
    \o TupleRules(dmgReductionMethods, <<"number", ",", " ", "number", ",", " ", "number">>)
    \o TupleRules(dmgImmuneMethods, <<"boolean", ",", " ", "number", ",", " ", "number">>)

postProcessIziSdk(content, outputDir) == ReplaceEach(content, IziSdkRules, 1)

\* without the switch on the module path
applyPostProcessingAnyPath(path, content) == postProcessKickExternalFiltersHelper(content)

applyPostProcessing(path, content) ==
  IF path = <<"common/izi_sdk">> THEN postProcessIziSdk(content, OUTPUT_DIR)
  ELSE IF path = <<"common/ow_menu_api">> THEN postProcessOwMenuApi(content)
  ELSE IF path = <<"common/utility/kick_external_filters_helper">>
  THEN postProcessKickExternalFiltersHelper(content)
  ELSE IF path = <<"common/utility/spell_sequence_helper">>
  THEN postProcessSpellSequenceHelper(content)
  ELSE content

(***************************************************************************)
(* One pass of the body of main's loop: the file of a module is read and   *)
(* parsed, and its declaration is generated unless no class was found.     *)
(* The file is any selection of the lines of a sample file, in order.      *)
(***************************************************************************)
SampleFile ==
  << Doc \o <<"@", "alias", " ", "id", " ", "number">>,
     Doc \o <<"@", "class", " ", "foo">>,
     Doc \o <<"@", "field", " ", "x", " ", "integer">>,
     Doc \o <<"@", "field", " ", "y", " ", "integer">>,
     Doc \o <<"@", "field", " ", "n", " ", "Number">>,
     Doc \o <<"@", "field", " ", "[", "string", "]", " ", "number">>,
     <<"function", " ", "foo", ".", "bar", "(", ")">>,
     <<"function", " ", "point", ":", "length", "(", "x", ")">>,
     Doc \o <<"@", "type", " ", "point">> >>

\* the lines of SampleFile whose positions are in sel, in the order of the file
RECURSIVE Selected(_, _)
Selected(sel, i) ==
  IF i > Len(SampleFile) THEN <<>>
  ELSE (IF i \in sel THEN <<SampleFile[i]>> ELSE <<>>) \o Selected(sel, i + 1)

ModulePaths == {<<"common/geometry/point">>}

Configs ==
  [file : {<<"common/geometry/geometry.lua">>},
   mainExport : {Null, <<"foo">>},
   filterClasses : {<<>>, << <<"foo">>, <<"foo", "*">> >>},
   declareGlobalVar : BOOLEAN]

\* const content = fs.readFileSync(...); const parseResult = parseApiFile(content)
ParseContent(content) ==
  /\ phase = "start"
  /\ LET st == ParseLines(FreshParser, content)
     IN /\ lines' = content
        /\ classes' = st.classes
        /\ aliases' = st.aliases
        /\ currentClass' = st.currentClass
        /\ currentDescription' = st.currentDescription
        /\ detectedMainExport' = st.detectedMainExport
        /\ pendingParams' = st.pendingParams
        /\ pendingReturn' = st.pendingReturn
  /\ phase' = "parsed"
  /\ UNCHANGED <<buildVars, typeVars, modulePath, config, filtered, declaration, batchVars>>

ParseFile == \E sel \in SUBSET (1..Len(SampleFile)) : ParseContent(Selected(sel, 1))

\* one more entry of `processed`
Outcome(result) == Append(processed, [modulePath |-> modulePath, outcome |-> result])

\* skipCount++ turned into errorCount++
SkipModuleAsError ==
  /\ phase = "parsed"
  /\ Len(classes) = 0
  /\ errorCount' = errorCount + 1
  /\ processed' = Outcome("error")
  /\ phase' = "skipped"
  /\ UNCHANGED <<buildVars, typeVars, parseVars, modulePath, config, filtered, declaration>>
  /\ UNCHANGED <<targetModule, queue, successCount, skipCount, written, exitCode>>

\* if (parseResult.classes.size === 0) { skipCount++; continue; }
SkipModule ==
  /\ phase = "parsed"
  /\ Len(classes) = 0
  /\ skipCount' = skipCount + 1
  /\ processed' = Outcome("skipped")
  /\ phase' = "skipped"
  /\ UNCHANGED <<buildVars, typeVars, parseVars, modulePath, config, filtered, declaration>>
  /\ UNCHANGED <<targetModule, queue, successCount, errorCount, written, exitCode>>

\* let declaration = generateDeclaration(modulePath, config, parseResult)
Generate ==
  /\ phase = "parsed"
  /\ Len(classes) # 0
  /\ filtered' = filterClasses(classes, config.filterClasses)
  /\ declaration' = generateDeclaration(modulePath, config, ResultOf(ParserState))
  /\ phase' = "generated"
  /\ UNCHANGED <<buildVars, typeVars, parseVars, modulePath, config, batchVars>>

InitEmit ==
  /\ modulePath \in ModulePaths
  /\ config \in Configs
  /\ filtered = <<>>
  /\ declaration = Null
  /\ phase = "start"
  /\ BatchIdle
  /\ lines = <<>> /\ classes = <<>> /\ aliases = <<>>
  /\ currentClass = Null /\ currentDescription = <<>> /\ detectedMainExport = Null
  /\ pendingParams = <<>> /\ pendingReturn = Null
  /\ TypeIdle
  /\ BuildIdle

NextEmit == ParseFile \/ SkipModule \/ Generate

SpecEmit == InitEmit /\ [][NextEmit]_vars

(***************************************************************************)
(* The first step of generateDeclaration on its own: the classes of a file *)
(* of @class lines are filtered by the patterns of the module.             *)
(***************************************************************************)
MaxClassLines == 3
MaxPatterns == 2

FilterNames == {"fo", "foo", "foo_bar", "point"}
FilterPatterns == {<<"foo">>, <<"fo", "*">>, <<"foo", "*">>, <<"point">>, <<"*">>}

\* the sequences of at most n elements of S
SeqsUpTo(S, n) == UNION {[1..k -> S] : k \in 0..n}

ClassFiles ==
  SeqsUpTo({Doc \o <<"@", "class", " ", name>> : name \in FilterNames}, MaxClassLines)

\* const filteredClasses = filterClasses(classes, config.filterClasses)
FilterClasses ==
  /\ phase = "parsed"
  /\ filtered' = filterClasses(classes, config.filterClasses)
  /\ phase' = "filtered"
  /\ UNCHANGED <<buildVars, typeVars, parseVars, modulePath, config, declaration, batchVars>>

InitFilter ==
  /\ modulePath \in ModulePaths
  /\ \E patterns \in SeqsUpTo(FilterPatterns, MaxPatterns) :
       config = [file |-> <<"common/geometry/geometry.lua">>, mainExport |-> Null,
                 filterClasses |-> patterns, declareGlobalVar |-> FALSE]
  /\ filtered = <<>>
  /\ declaration = Null
  /\ phase = "parsed"
  /\ BatchIdle
  /\ \E content \in ClassFiles :
       LET st == ParseLines(FreshParser, content)
       IN /\ lines = content
          /\ classes = st.classes
          /\ aliases = st.aliases
          /\ currentClass = st.currentClass
          /\ currentDescription = st.currentDescription
          /\ detectedMainExport = st.detectedMainExport
          /\ pendingParams = st.pendingParams
          /\ pendingReturn = st.pendingReturn
  /\ TypeIdle
  /\ BuildIdle

NextFilter == FilterClasses

SpecFilter == InitFilter /\ [][NextFilter]_vars

(***************************************************************************)
(* main: the batch over the registry.                                      *)
(***************************************************************************)
\* entries of the registry, in the order of the object literal
MODULES ==
  << [modulePath |-> <<"common/izi_sdk">>,
      config |-> [file |-> <<"common/izi_sdk.lua">>, mainExport |-> <<"izi_api">>,
                  filterClasses |-> <<>>, declareGlobalVar |-> FALSE]],
     [modulePath |-> <<"common/utility/kick_external_filters_helper">>,
      config |-> [file |-> <<"common/utility/kick_external_filters_helper.lua">>,
                  mainExport |-> <<"kick_external_filters_helper">>,
                  filterClasses |-> <<>>, declareGlobalVar |-> FALSE]],
     [modulePath |-> <<"core">>,
      config |-> [file |-> <<"core.lua">>, mainExport |-> <<"core">>,
                  filterClasses |-> <<>>, declareGlobalVar |-> TRUE]] >>

\* MODULES[name], Null when the registry has no such key
ModuleConfig(name) ==
  IF \E i \in 1..Len(MODULES) : MODULES[i].modulePath = name
  THEN MODULES[CHOOSE i \in 1..Len(MODULES) : MODULES[i].modulePath = name].config
  ELSE Null

\* process.argv[2]: absent, a key of the registry, or some other word
Targets == {Null, <<"core">>, <<"common/izi_sdk">>, <<"nowhere">>}

\* the texts fs.readFileSync may return
MainFiles == {<<LBlank>>, <<LText, LLocal>>, <<LClass, LFieldX>>, <<LClass, LFieldN, LColon>>}

\* the positions of the loop body after which the for statement takes the next entry
LoopHead == {"loop", "failed", "skipped", "written"}

\* const modulesToProcess = ...; if (targetModule && !MODULES[targetModule]) process.exit(1)
SelectModules ==
  /\ phase = "main"
  /\ IF targetModule = Null
     THEN queue' = MODULES /\ phase' = "loop" /\ exitCode' = exitCode
     ELSE IF ModuleConfig(targetModule) = Null
     THEN queue' = queue /\ phase' = "exited" /\ exitCode' = 1
     ELSE /\ queue' = <<[modulePath |-> targetModule, config |-> ModuleConfig(targetModule)]>>
          /\ phase' = "loop" /\ exitCode' = exitCode
  /\ UNCHANGED <<buildVars, typeVars, parseVars, modulePath, config, filtered, declaration>>
  /\ UNCHANGED <<targetModule, successCount, skipCount, errorCount, processed, written>>

\* for (const [modulePath, config] of Object.entries(modulesToProcess))
NextModule ==
  /\ phase \in LoopHead
  /\ queue # <<>>
  /\ modulePath' = Head(queue).modulePath
  /\ config' = Head(queue).config
  /\ queue' = Tail(queue)
  /\ filtered' = <<>>
  /\ declaration' = Null
  /\ lines' = <<>> /\ classes' = <<>> /\ aliases' = <<>>
  /\ currentClass' = Null /\ currentDescription' = <<>> /\ detectedMainExport' = Null
  /\ pendingParams' = <<>> /\ pendingReturn' = Null
  /\ phase' = "start"
  /\ UNCHANGED <<buildVars, typeVars>>
  /\ UNCHANGED <<targetModule, successCount, skipCount, errorCount, processed, written,
                 exitCode>>

\* errorCount++ and out of the loop
UnitFailsAndStops ==
  /\ errorCount' = errorCount + 1
  /\ processed' = Outcome("error")
  /\ phase' = "failed"
  /\ queue' = <<>>
  /\ UNCHANGED <<buildVars, typeVars, parseVars, modulePath, config, filtered, declaration>>
  /\ UNCHANGED <<targetModule, successCount, skipCount, written, exitCode>>

\* errorCount++ and on to the next entry
UnitFails ==
  /\ errorCount' = errorCount + 1
  /\ processed' = Outcome("error")
  /\ phase' = "failed"
  /\ UNCHANGED <<buildVars, typeVars, parseVars, modulePath, config, filtered, declaration>>
  /\ UNCHANGED <<targetModule, queue, successCount, skipCount, written, exitCode>>

\* if (!fs.existsSync(inputPath)) { errorCount++; continue; }
MissingFile ==
  /\ phase = "start"
  /\ UnitFails

\* an exception in the try block: reading, parsing, generating, patching, writing
Throws ==
  /\ \/ phase = "start"
     \/ phase = "parsed" /\ Len(classes) # 0
     \/ phase \in {"generated", "patched"}
  /\ UnitFails

ReadFile == \E content \in MainFiles : ParseContent(content)

\* declaration = applyPostProcessing(modulePath, declaration)
PostProcess ==
  /\ phase = "generated"
  /\ declaration' = applyPostProcessing(modulePath, declaration)
  /\ phase' = "patched"
  /\ UNCHANGED <<buildVars, typeVars, parseVars, modulePath, config, filtered, batchVars>>

\* mutant: the file is written and the unit is then counted as an error
WriteFileThenFails ==
  /\ phase = "patched"
  /\ written' = Append(written, [modulePath |-> modulePath, content |-> declaration])
  /\ errorCount' = errorCount + 1
  /\ processed' = Outcome("error")
  /\ phase' = "failed"
  /\ UNCHANGED <<buildVars, typeVars, parseVars, modulePath, config, filtered, declaration>>
  /\ UNCHANGED <<targetModule, queue, skipCount, successCount, exitCode>>

\* fs.writeFileSync(outputPath, declaration); successCount++
WriteFile ==
  /\ phase = "patched"
  /\ written' = Append(written, [modulePath |-> modulePath, content |-> declaration])
  /\ successCount' = successCount + 1
  /\ processed' = Outcome("generated")
  /\ phase' = "written"
  /\ UNCHANGED <<buildVars, typeVars, parseVars, modulePath, config, filtered, declaration>>
  /\ UNCHANGED <<targetModule, queue, skipCount, errorCount, exitCode>>

\* the loop is over: the totals are logged, main returns and the process ends
Finish ==
  /\ phase \in LoopHead
  /\ queue = <<>>
  /\ exitCode' = 0
  /\ phase' = "exited"
  /\ UNCHANGED <<buildVars, typeVars, parseVars, modulePath, config, filtered, declaration>>
  /\ UNCHANGED <<targetModule, queue, successCount, skipCount, errorCount, processed,
                 written>>

InitMain ==
  /\ targetModule \in Targets
  /\ queue = <<>>
  /\ successCount = 0 /\ skipCount = 0 /\ errorCount = 0
  /\ processed = <<>> /\ written = <<>> /\ exitCode = Null
  /\ modulePath = Null /\ config = Null /\ filtered = <<>> /\ declaration = Null
  /\ phase = "main"
  /\ lines = <<>> /\ classes = <<>> /\ aliases = <<>>
  /\ currentClass = Null /\ currentDescription = <<>> /\ detectedMainExport = Null
  /\ pendingParams = <<>> /\ pendingReturn = Null
  /\ TypeIdle
  /\ BuildIdle

NextMain ==
  \/ SelectModules \/ NextModule \/ MissingFile \/ ReadFile \/ Throws
  \/ SkipModule \/ Generate \/ PostProcess \/ WriteFile \/ Finish

SpecMain == InitMain /\ [][NextMain]_vars

(***************************************************************************)
(* applyPostProcessing on declaration texts.                               *)
(***************************************************************************)
MaxPatchLines == 2

\* lines of declaration text, among them one for every kind of pattern of the patches
PatchLines ==
  {<<" ", " ", "f", "(", "opts", "?", ":", " ", "{", ")", ":", " ", "void", ";">>,
   <<" ", " ", "f", "(", "a", ",", " ", "string", "|", "nil", ":", " ", "any", ",", " ", "string", "|", "nil", ":", " ", "any", ",", " ", "b", ")", ":", " ", "void", ";">>,
   <<" ", " ", "f", "(", "a", ",", " ", "string", "|", "nil", ":", " ", "any", ",", " ", "b", ")", ":", " ", "void", ";">>,
   <<" ", " ", "a", ":", " ", "string", " ", "\"", "x", "\"", ";">>,
   <<" ", " ", "b", ":", " ", "game_object", " ", "|", " ", "(", "this", ":", " ", "void", ")", " ", "=>", " ", "game_object", ";">>,
   <<" ", " ", "skip_back", "?", ":", " ", "boolean", " ", "validated", " ", "in", " ", "is_castable_to_unit", ";">>,
   <<" ", " ", "is_cc", "(", "this", ":", " ", "game_object", ")", ":", " ", "(", "boolean", ",", " ", "number", ",", ";">>,
   <<" ", " ", "on_buff_gain", "(", "this", ":", " ", "void", ",", " ", "cb", ":", " ", "x", ")", " ", "=>", " ", "(", "this", ":", " ", "void", ")", ":", " ", "void", ";">>,
   <<" ", " ", "x", ":", " ", "number", ";">>}

\* the texts of at most MaxPatchLines lines
PatchTexts == {Join(ls, <<"\n">>) : ls \in SeqsUpTo(PatchLines, MaxPatchLines)}

\* the four entries of the registry that have a patch, and two that have none
PatchModules ==
  {[modulePath |-> <<"common/geometry/vector_2">>,
    config |-> [file |-> <<"common/geometry/vec2.lua">>, mainExport |-> <<"vec2">>,
                filterClasses |-> <<>>, declareGlobalVar |-> FALSE]],
   [modulePath |-> <<"common/ow_menu_api">>,
    config |-> [file |-> <<"common/ow_menu_api.lua">>, mainExport |-> <<"ow_menu_api">>,
                filterClasses |-> <<>>, declareGlobalVar |-> FALSE]],
   [modulePath |-> <<"common/utility/spell_sequence_helper">>,
    config |-> [file |-> <<"common/utility/spell_sequence_helper.lua">>,
                mainExport |-> <<"spell_sequence_helper">>,
                filterClasses |-> <<>>, declareGlobalVar |-> FALSE]]}
    \cup {MODULES[i] : i \in 1..Len(MODULES)}

InitPatch ==
  /\ \E entry \in PatchModules : modulePath = entry.modulePath /\ config = entry.config
  /\ declaration \in PatchTexts
  /\ filtered = <<>>
  /\ phase = "generated"
  /\ BatchIdle
  /\ lines = <<>> /\ classes = <<>> /\ aliases = <<>>
  /\ currentClass = Null /\ currentDescription = <<>> /\ detectedMainExport = Null
  /\ pendingParams = <<>> /\ pendingReturn = Null
  /\ TypeIdle
  /\ BuildIdle

NextPatch == PostProcess

SpecPatch == InitPatch /\ [][NextPatch]_vars

(***************************************************************************)
(* The type translator driven over a bounded family of type expressions:  *)
(* an atom or a sample, wrapped by at most MaxBuilt type constructors.     *)
(***************************************************************************)
MaxBuilt == 2

TypeAtoms ==
  { <<"number">>, <<"nil">>, <<"a">>,
    <<"a", "|">>,
    <<"table", "<", "a", ">">>,
    <<"fun", "(", "x", ":", " ", "table", "<", "string", ",", "number", ">", ")", ":",
      " ", "boolean", "|", "nil">>,
    <<"fun", "(", "self", ":", " ", "foo", ",", " ", "x", ":", " ", "number", ")", ":",
      " ", "boolean">>,
    <<"fun", " ", "(", "x", ")", ":", " ", "boolean">>,
    <<"fun", " ", "x">> }

UnionAtoms == {<<"number">>, <<"a">>}

FunShapes == 1..4
FunOf(shape, t) ==
  IF shape = 1 THEN <<"fun", "(", "x", ":", " ">> \o t \o <<")", ":", " ", "boolean">>
  ELSE IF shape = 2
  THEN <<"fun", "(", "self", ":", " ", "foo", ",", " ", "x", ":", " ">> \o t
         \o <<")", ":", " ", "boolean">>
  ELSE IF shape = 3
  THEN <<"fun", "(", "x", ":", " ", "number", ",", " ", "self", ":", " ", "foo", ")",
         ":", " ">> \o t
  ELSE <<"fun", "(", ")", ":", " ">> \o t

\* a constructor has produced the next type expression; it is not yet translated
Build(t) ==
  /\ translated
  /\ built < MaxBuilt
  /\ srcType' = t
  /\ built' = built + 1
  /\ translated' = FALSE
  /\ UNCHANGED <<tsType, funType, aliasTs, unionParts, commaParts>>
  /\ UNCHANGED <<parseVars, emitVars, buildVars>>

MakeOptional == Build(srcType \o <<"?">>)
MakeNilable == \E sp \in {<<"|", "nil">>, <<" ", "|", " ", "nil">>} : Build(srcType \o sp)
MakeUnion == \E a \in UnionAtoms : Build(srcType \o <<"|">> \o a)
MakeArray == Build(srcType \o <<"[", "]">>)
MakeParen == Build(<<"(">> \o srcType \o <<")">>)
MakeList == \E a \in UnionAtoms : Build(srcType \o <<",", " ">> \o a)
MakeTable == Build(<<"table", "<", "string", ",", " ">> \o srcType \o <<">">>)
MakeFun == \E shape \in FunShapes : Build(FunOf(shape, srcType))
AddComment == Build(srcType \o <<" ", "-", "-", " ", "the">>)
AddDescription == Build(srcType \o <<" ", "Returns", " ", "the">>)
AddWords == Build(srcType \o <<" ", "the", " ", "length">>)

\* hand the type expression to the translator and its helpers
Translate ==
  /\ ~translated
  /\ tsType' = convertLuaTypeToTS(srcType)
  /\ funType' = IF IsFunType(srcType) THEN parseFunType(srcType) ELSE Null
  /\ aliasTs' = convertLuaAliasToTS(srcType)
  /\ unionParts' = splitUnion(srcType)
  /\ commaParts' = splitByComma(srcType)
  /\ translated' = TRUE
  /\ UNCHANGED <<srcType, built>>
  /\ UNCHANGED <<parseVars, emitVars, buildVars>>

ParseIdle ==
  /\ lines = <<>> /\ classes = <<>> /\ aliases = <<>>
  /\ currentClass = Null /\ currentDescription = <<>> /\ detectedMainExport = Null
  /\ pendingParams = <<>> /\ pendingReturn = Null
  /\ EmitIdle

InitType ==
  /\ srcType \in TypeAtoms
  /\ tsType = Null /\ funType = Null /\ aliasTs = Null
  /\ unionParts = <<>> /\ commaParts = <<>>
  /\ translated = FALSE
  /\ built = 0
  /\ ParseIdle
  /\ BuildIdle

NextType ==
  \/ MakeOptional \/ MakeNilable \/ MakeUnion \/ MakeArray \/ MakeParen
  \/ MakeList \/ MakeTable \/ MakeFun \/ AddComment \/ AddDescription \/ AddWords
  \/ Translate

SpecType == InitType /\ [][NextType]_vars

(***************************************************************************)
(* scripts/build-rotation.js: main and buildRotation.  What the file       *)
(* system and the transpiler answer is chosen by the environment at each   *)
(* call.  An exception that no try block catches ends the process with     *)
(* status 1.                                                               *)
(***************************************************************************)
\* what discoverRotations may return
Discovered ==
  {<<>>, <<<<"ext_rotation_a">>>>, <<<<"ext_rotation_a">>, <<"ext_rotation_b">>>>}

\* the first argument that is no flag: absent, a rotation, or some other word
TargetRotations == {Null, <<"ext_rotation_a">>, <<"ext_rotation_x">>}

\* one more step of the current rotation has run
Ran(name, ok) == Append(steps, [rotation |-> rotation, step |-> name, ok |-> ok])

BuildFrame == UNCHANGED <<typeVars, parseVars, emitVars>>

\* return false; failCount++ in the loop of main
ReturnFalse ==
  /\ failCount' = failCount + 1
  /\ step' = "loop"
  /\ UNCHANGED <<availableRotations, debugMode, targetRotation, rotationsToBuild, rotation,
                 builtCount, buildExit>>
  /\ BuildFrame

\* return true; successCount++ in the loop of main
ReturnTrue ==
  /\ builtCount' = builtCount + 1
  /\ step' = "loop"
  /\ UNCHANGED <<availableRotations, debugMode, targetRotation, rotationsToBuild, rotation,
                 failCount, buildExit>>
  /\ BuildFrame

\* the step is done, buildRotation goes on at `next`
GoOn(next) ==
  /\ step' = next
  /\ UNCHANGED <<availableRotations, debugMode, targetRotation, rotationsToBuild, rotation,
                 builtCount, failCount, buildExit>>
  /\ BuildFrame

\* an exception outside every try block: it leaves buildRotation and main
Uncaught ==
  /\ step' = "exited"
  /\ buildExit' = 1
  /\ UNCHANGED <<availableRotations, debugMode, targetRotation, rotationsToBuild, rotation,
                 builtCount, failCount>>
  /\ BuildFrame

\* main, up to the loop
SelectRotations ==
  /\ step = "main"
  /\ IF targetRotation # Null
     THEN IF \E i \in DOMAIN availableRotations : availableRotations[i] = targetRotation
          THEN rotationsToBuild' = <<targetRotation>> /\ step' = "loop"
                 /\ buildExit' = buildExit
          ELSE rotationsToBuild' = <<>> /\ step' = "exited" /\ buildExit' = 1
     ELSE IF availableRotations = <<>>
          THEN rotationsToBuild' = <<>> /\ step' = "exited" /\ buildExit' = 0
          ELSE rotationsToBuild' = availableRotations /\ step' = "loop"
                 /\ buildExit' = buildExit
  /\ UNCHANGED <<availableRotations, debugMode, targetRotation, rotation, steps, builtCount,
                 failCount>>
  /\ BuildFrame

\* for (const rotation of rotationsToBuild) buildRotation(rotation, debugMode)
NextRotation ==
  /\ step = "loop"
  /\ rotationsToBuild # <<>>
  /\ rotation' = Head(rotationsToBuild)
  /\ rotationsToBuild' = Tail(rotationsToBuild)
  /\ step' = "verify"
  /\ UNCHANGED <<availableRotations, debugMode, targetRotation, steps, builtCount, failCount,
                 buildExit>>
  /\ BuildFrame

\* if (!fs.existsSync(tsconfigPath)) return false
VerifyRotation ==
  /\ step = "verify"
  /\ \E exists \in BOOLEAN :
       /\ steps' = Ran("verify", exists)
       /\ IF exists THEN GoOn("mkdir") ELSE ReturnFalse

\* if (!fs.existsSync(outputDir)) fs.mkdirSync(outputDir, { recursive: true })
EnsureOutputDir ==
  /\ step = "mkdir"
  /\ \E ok \in BOOLEAN :
       /\ steps' = Ran("mkdir", ok)
       /\ IF ok THEN GoOn("header") ELSE Uncaught

\* step 1: transpile the header when tsconfig.header.json exists
TranspileHeader ==
  /\ step = "header"
  /\ \E exists \in BOOLEAN, ok \in BOOLEAN :
       IF ~exists THEN steps' = steps /\ GoOn("transpile")
       ELSE /\ steps' = Ran("header", ok)
            /\ IF ok THEN GoOn("transpile") ELSE ReturnFalse

\* step 2: transpile main
TranspileMain ==
  /\ step = "transpile"
  /\ \E ok \in BOOLEAN :
       /\ steps' = Ran("transpile", ok)
       /\ IF ok THEN GoOn("copy") ELSE ReturnFalse

\* step 3: copy header.lua and fix its export, when dist has a header.lua
CopyHeader ==
  /\ step = "copy"
  /\ \E exists \in BOOLEAN, ok \in BOOLEAN :
       IF ~exists THEN steps' = steps /\ GoOn("bundle")
       ELSE /\ steps' = Ran("copy", ok)
            /\ IF ok THEN GoOn("bundle") ELSE Uncaught

\* step 4: copy the Lua files (debug) or bundle them
BundleOrCopy ==
  /\ step = "bundle"
  /\ \E ok \in BOOLEAN :
       /\ steps' = Ran("bundle", ok)
       /\ IF ok THEN ReturnTrue
          ELSE IF debugMode THEN Uncaught
          ELSE ReturnFalse

\* the summary; if (failCount > 0) process.exit(1)
FinishBuild ==
  /\ step = "loop"
  /\ rotationsToBuild = <<>>
  /\ step' = "exited"
  /\ buildExit' = IF failCount > 0 THEN 1 ELSE 0
  /\ UNCHANGED <<availableRotations, debugMode, targetRotation, rotationsToBuild, rotation,
                 steps, builtCount, failCount>>
  /\ BuildFrame

InitBuild ==
  /\ availableRotations \in Discovered
  /\ debugMode \in BOOLEAN
  /\ targetRotation \in TargetRotations
  /\ rotationsToBuild = <<>>
  /\ rotation = Null
  /\ step = "main"
  /\ steps = <<>>
  /\ builtCount = 0 /\ failCount = 0
  /\ buildExit = Null
  /\ TypeIdle
  /\ ParseIdle

NextBuild ==
  \/ SelectRotations \/ NextRotation \/ VerifyRotation \/ EnsureOutputDir
  \/ TranspileHeader \/ TranspileMain \/ CopyHeader \/ BundleOrCopy \/ FinishBuild

SpecBuild == InitBuild /\ [][NextBuild]_vars


(***************************************************************************)
(* Nesting, stated independently of the depth counter of the source: the   *)
(* stack of brackets still open, each closing bracket matched by kind.     *)
(***************************************************************************)
CloserOf(o) == IF o = "(" THEN ")" ELSE IF o = "[" THEN "]" ELSE IF o = "{" THEN "}" ELSE ">"
Unmatched == <<"!">>

RECURSIVE OpenBrackets(_, _, _)
OpenBrackets(s, i, stack) ==
  IF i > Len(s) THEN stack
  ELSE IF s[i] \in Opening THEN OpenBrackets(s, i + 1, Append(stack, s[i]))
  ELSE IF s[i] \in Closing
  THEN IF stack # <<>> /\ CloserOf(stack[Len(stack)]) = s[i]
       THEN OpenBrackets(s, i + 1, SubSeq(stack, 1, Len(stack) - 1))
       ELSE Unmatched
  ELSE OpenBrackets(s, i + 1, stack)

Balanced(s) == OpenBrackets(s, 1, <<>>) = <<>>

\* positions of the separators that lie inside no bracket group
TopLevelAt(s, sep) ==
  {i \in 1..Len(s) : s[i] = sep /\ OpenBrackets(SubSeq(s, 1, i - 1), 1, <<>>) = <<>>}

\* the text between consecutive top-level separators, trimmed; a blank last piece is no part
TopLevelParts(s, sep) ==
  LET cuts == TopLevelAt(s, sep)
      n == Cardinality(cuts)
      CutAt(k) == IF k = 0 THEN 0
                  ELSE IF k = n + 1 THEN Len(s) + 1
                  ELSE CHOOSE i \in cuts : Cardinality({j \in cuts : j < i}) = k - 1
      pieces == [k \in 1..(n + 1) |-> Trim(SubSeq(s, CutAt(k - 1) + 1, CutAt(k) - 1))]
  IN IF pieces[n + 1] = <<>> THEN SubSeq(pieces, 1, n) ELSE pieces

NoRepeats(xs) == \A i, j \in 1..Len(xs) : xs[i] = xs[j] => i = j

\* the elements of xs that equal no earlier element, in their order
Firsts(xs) ==
  LET keep == {i \in 1..Len(xs) : \A j \in 1..(i - 1) : xs[j] # xs[i]}
      Nth(k) == CHOOSE i \in keep : Cardinality({j \in keep : j < i}) = k - 1
  IN [k \in 1..Cardinality(keep) |-> xs[Nth(k)]]

SampleFun ==
  <<"fun", "(", "x", ":", " ", "table", "<", "string", ",", "number", ">", ")", ":",
    " ", "boolean", "|", "nil">>

(***************************************************************************)
(* C3 (as claimed): every function type parseFunType accepts is rendered   *)
(* with exactly one receiver entry, and it is the first entry: `this: T`   *)
(* when a parameter is named self (type T), else `this: void`.             *)
(***************************************************************************)
FunAccepted(t) ==
  /\ IsFunType(t)
  /\ IndexOf(t, <<"(">>) # 0
  /\ findMatchingParen(t, IndexOf(t, <<"(">>)) # 0
SourceParams(t) ==
  parseParams(SubSeq(t, IndexOf(t, <<"(">>) + 1, findMatchingParen(t, IndexOf(t, <<"(">>)) - 1))
RenderedEntries(f) == splitByComma(SubSeq(f, 2, findMatchingParen(f, 1) - 1))
IsReceiverEntry(e) == StartsWith(e, <<"this", ":">>)

C3_OneReceiverFirst ==
  (translated /\ FunAccepted(srcType)) =>
    LET params == SourceParams(srcType)
        entries == RenderedEntries(funType)
        selfs == {i \in 1..Len(params) : params[i].name = <<"self">>}
    IN /\ {i \in 1..Len(entries) : IsReceiverEntry(entries[i])} = {1}
       /\ IF selfs = {}
          THEN entries[1] = <<"this", ":", " ", "void">>
          ELSE \E i \in selfs : entries[1] = <<"this", ":", " ">> \o params[i].type

(***************************************************************************)
(* C5 (as claimed): for a type expression with two or more top-level "|"   *)
(* alternatives the returned union holds no member twice.                  *)
(***************************************************************************)
C5_NoMemberTwice ==
  (translated /\ Len(TopLevelParts(StripComment(srcType), "|")) >= 2) =>
    NoRepeats(TopLevelParts(tsType, "|"))

(***************************************************************************)
(* C5 (amended): when the expression reaches the union rule (two or more   *)
(* top-level alternatives, not ending in "|nil" / "| nil"), the result is  *)
(* the translated alternatives joined by " | " with every translation that *)
(* equals an earlier one left out, the others in their original order.     *)
(***************************************************************************)
ReachesUnionRule(t) ==
  /\ t # <<>> /\ t # <<"nil">>
  /\ ~HasNilSuffix(t)
  /\ Len(splitUnion(t)) >= 2

C5_UnionDeduplicated ==
  (translated /\ ReachesUnionRule(StripComment(srcType))) =>
    LET alts == ConvertAll(splitUnion(StripComment(srcType)))
    IN /\ tsType = Join(Firsts(alts), <<" ", "|", " ">>)
       /\ NoRepeats(Firsts(alts))

C5_Witness ==
  /\ translated
  /\ srcType = <<"number", "|", "number">>
  /\ tsType = <<"number">>

(***************************************************************************)
(* C6: on an input with balanced delimiters splitUnion and splitByComma    *)
(* cut exactly at the separators that lie inside no bracket group, and     *)
(* every part they return has balanced delimiters.                         *)
(***************************************************************************)
C6_SplitsOnlyAtTopLevel ==
  (translated /\ Balanced(srcType)) =>
    /\ unionParts = TopLevelParts(srcType, "|")
    /\ commaParts = TopLevelParts(srcType, ",")
    /\ \A i \in 1..Len(unionParts) : Balanced(unionParts[i])
    /\ \A i \in 1..Len(commaParts) : Balanced(commaParts[i])

C6_Witness ==
  /\ translated
  /\ srcType = SampleFun
  /\ unionParts = <<SubSeq(SampleFun, 1, 15), <<"nil">>>>
  /\ commaParts = <<SampleFun>>

(***************************************************************************)
(* C7: the result of convertLuaTypeToTS is the result of the first rule,   *)
(* in the order 2 empty/nil, 3 trailing "| nil", 4 primitive, 5 trailing   *)
(* "?", 6 union, 7 parenthesized, 8 "[]", 9 table<K, V>, 10 function type, *)
(* 11 passthrough, whose condition the comment-stripped input meets.       *)
(***************************************************************************)
RuleApplies(n, t) ==
  IF n = 2 THEN t = <<>> \/ t = <<"nil">>
  ELSE IF n = 3 THEN HasNilSuffix(t)
  ELSE IF n = 4 THEN IsPrimitive(t)
  ELSE IF n = 5 THEN IsOptional(t)
  ELSE IF n = 6 THEN IsUnion(t)
  ELSE IF n = 7 THEN IsParenthesized(t)
  ELSE IF n = 8 THEN IsArray(t)
  ELSE IF n = 9 THEN IsTableOf(t)
  ELSE IF n = 10 THEN IsFunType(t)
  ELSE TRUE

RuleResult(n, t) ==
  IF n = 2 THEN <<"void">>
  ELSE IF n = 3 THEN NilSuffixType(t)
  ELSE IF n = 4 THEN PrimitiveType(t)
  ELSE IF n = 5 THEN OptionalType(t)
  ELSE IF n = 6 THEN UnionType(t)
  ELSE IF n = 7 THEN ParenthesizedType(t)
  ELSE IF n = 8 THEN ArrayType(t)
  ELSE IF n = 9 THEN TableType(t)
  ELSE IF n = 10 THEN parseFunType(t)
  ELSE t

FirstRule(t) == CHOOSE n \in 2..11 : RuleApplies(n, t) /\ \A m \in 2..(n - 1) : ~RuleApplies(m, t)

C7_FirstMatchingRuleWins ==
  translated => tsType = RuleResult(FirstRule(StripComment(srcType)), StripComment(srcType))

C7_Witness ==
  /\ translated
  /\ RuleApplies(3, srcType) /\ RuleApplies(6, srcType)
  /\ tsType = NilSuffixType(srcType)
  /\ tsType # UnionType(srcType)

(***************************************************************************)
(* Claims about parseApiFile, stated over the lines consumed so far.       *)
(***************************************************************************)
IsDotLine(l) == funcDeclMatch(Trim(l)).ok
IsColonLine(l) == ~funcDeclMatch(Trim(l)).ok /\ funcColonMatch(Trim(l)).ok

\* the class and the method a declaration line names
DeclaredClass(l) ==
  IF IsDotLine(l) THEN LastOfPath(funcDeclMatch(Trim(l)).classPath)
  ELSE funcColonMatch(Trim(l)).className
DeclaredMethod(l) ==
  IF IsDotLine(l) THEN funcDeclMatch(Trim(l)).methodName
  ELSE funcColonMatch(Trim(l)).methodName

MethodsNamed(cls, methodName) == SelectSeq(cls.fields, LAMBDA f : f.name = methodName)

\* the handler taken for each line of content, started from st
RECURSIVE KindsFrom(_, _)
KindsFrom(st, content) ==
  IF content = <<>> THEN <<>>
  ELSE <<LineKind(st, Head(content))>>
         \o KindsFrom(ParseLine(st, Head(content)), Tail(content))

Without(content, i) == SubSeq(content, 1, i - 1) \o SubSeq(content, i + 1, Len(content))

(***************************************************************************)
(* C1: a dot-form declaration of C.m and a colon-form declaration of C:m,  *)
(* in either order, leave exactly one method named m in C.fields, and it   *)
(* is the colon-form definition (its first parameter is self: C).          *)
(***************************************************************************)
C1_CollisionKeepsColonForm ==
  \A i, j \in 1..Len(lines) :
    ( /\ i < j
      /\ \/ IsDotLine(lines[i]) /\ IsColonLine(lines[j])
         \/ IsColonLine(lines[i]) /\ IsDotLine(lines[j])
      /\ DeclaredClass(lines[i]) = DeclaredClass(lines[j])
      /\ DeclaredMethod(lines[i]) = DeclaredMethod(lines[j]) )
    => LET named == MethodsNamed(GetClass(classes, DeclaredClass(lines[i])),
                                 DeclaredMethod(lines[i]))
       IN /\ Len(named) = 1
          /\ StartsWith(named[1].type,
                        <<"fun", "(", "self", ":", " ">> \o DeclaredClass(lines[i]))

(***************************************************************************)
(* C2: right after a colon-form declaration function C:m(p1, ..., pn) the  *)
(* method line generateInterface writes for m has exactly one receiver     *)
(* entry, `this: C`, and it is the first entry.                            *)
(***************************************************************************)
MethodEntries(text) ==
  splitByComma(SubSeq(text, IndexOf(text, <<"(">>) + 1,
                      findMatchingParen(text, IndexOf(text, <<"(">>)) - 1))

C2_ColonMethodHasOneReceiver ==
  (Len(lines) > 0 /\ IsColonLine(lines[Len(lines)])) =>
    LET className == DeclaredClass(lines[Len(lines)])
        methods == GetClass(classes, className).fields
        entries == MethodEntries(MethodLine(methods[Len(methods)]))
    IN /\ methods[Len(methods)].name = DeclaredMethod(lines[Len(lines)])
       /\ entries[1] = <<"this", ":", " ">> \o className
       /\ {k \in 1..Len(entries) : IsReceiverEntry(entries[k])} = {1}

(***************************************************************************)
(* C8: when a flushing line comes after an @param or @return line with no  *)
(* function declaration between the two, the parse result is the result    *)
(* for the input without that @param / @return line.                       *)
(***************************************************************************)
FlushedAnnotations ==
  LET kinds == KindsFrom(FreshParser, lines)
  IN {i \in 1..Len(lines) :
        /\ kinds[i] \in {"param", "return"}
        /\ \E j \in (i + 1)..Len(lines) :
             /\ kinds[j] = "flush"
             /\ \A k \in (i + 1)..(j - 1) :
                  kinds[k] \notin {"dotDeclaration", "colonDeclaration"}}

C8_FlushedAnnotationsContributeNothing ==
  \A i \in FlushedAnnotations :
    /\ ResultOf(ParserState) = parseApiFile(lines)
    /\ ResultOf(ParserState) = parseApiFile(Without(lines, i))

\* @param x number, a flushing line, then function point.length(x): x is typed any
C8_Witness ==
  /\ lines = <<LParamX, LLocal, LDot>>
  /\ FlushedAnnotations = {1}
  /\ GetClass(classes, <<"point">>).fields[1].type =
       <<"fun", "(", "x", ":", " ", "any", ")", ":", " ", "void">>

(***************************************************************************)
(* Claims about the generated declaration, read back line by line.         *)
(***************************************************************************)
\* the positions of text at which a line starts
LineStarts(text) == {i \in 1..Len(text) : i = 1 \/ text[i - 1] = "\n"}

\* the line of text that starts at position i starts with head
LineStartsWith(text, i, head) ==
  i + Len(head) - 1 <= Len(text) /\ SubSeq(text, i, i + Len(head) - 1) = head

\* l is a whole line of text
HasLine(text, l) ==
  \E i \in LineStarts(text) :
    /\ LineStartsWith(text, i, l)
    /\ i + Len(l) > Len(text) \/ text[i + Len(l)] = "\n"

\* the classes of the parse result that the patterns of the module let through
KeptClasses ==
  SelectSeq(classes, LAMBDA cls :
    config.filterClasses = <<>> \/ matchesFilter(cls.name, config.filterClasses))

EmittedAsEnum(className) ==
  HasLine(declaration, <<"declare", " ", "enum", " ">> \o className \o <<" ", "{">>)
EmittedAsInterface(className) ==
  HasLine(declaration, <<"interface", " ">> \o className \o <<" ", "{">>)

\* at least one data field, no method, no index signature
OnlyDataFields(cls) ==
  /\ Len(cls.dataFields) >= 1
  /\ Len(cls.fields) = 0
  /\ Len(cls.indexSignatures) = 0

(***************************************************************************)
(* C4 (as claimed): a class is enum-like, and written as an enum, iff it   *)
(* has at least one data field, no method, no index signature, and the     *)
(* translated type of every data field is exactly `number`.                *)
(***************************************************************************)
C4_EnumIffTranslatedNumber ==
  phase = "generated" =>
    \A k \in 1..Len(KeptClasses) :
      LET cls == KeptClasses[k]
          numeric == /\ OnlyDataFields(cls)
                     /\ \A i \in 1..Len(cls.dataFields) :
                          convertLuaTypeToTS(cls.dataFields[i].type) = <<"number">>
      IN /\ isEnumLikeClass(cls) <=> numeric
         /\ EmittedAsEnum(cls.name) <=> numeric

(***************************************************************************)
(* C4 (amended): a class is enum-like, and written as an enum, iff it has  *)
(* at least one data field, no method, no index signature, and the type    *)
(* expression of every data field, lower-cased and trimmed, is `number` or *)
(* `integer`.  Otherwise it is written as an interface.                    *)
(***************************************************************************)
C4_EnumIffNumberOrIntegerText ==
  phase = "generated" =>
    \A k \in 1..Len(KeptClasses) :
      LET cls == KeptClasses[k]
          numeric == /\ OnlyDataFields(cls)
                     /\ \A i \in 1..Len(cls.dataFields) :
                          Trim(ToLowerCase(cls.dataFields[i].type))
                            \in {<<"number">>, <<"integer">>}
      IN /\ isEnumLikeClass(cls) <=> numeric
         /\ EmittedAsEnum(cls.name) <=> numeric
         /\ EmittedAsInterface(cls.name) <=> ~numeric

\* two integer data fields and nothing else: foo is written as an enum
C4_Witness ==
  /\ phase = "generated"
  /\ Len(classes) = 1
  /\ classes[1].name = <<"foo">>
  /\ [i \in 1..Len(classes[1].dataFields) |-> classes[1].dataFields[i].type]
       = << <<"integer">>, <<"integer">> >>
  /\ OnlyDataFields(classes[1])
  /\ EmittedAsEnum(<<"foo">>)

(***************************************************************************)
(* C9: the main export is config.mainExport when it is set, otherwise      *)
(* detectedMainExport when it names a class of the filtered class set,     *)
(* otherwise none.  With none, the declaration holds neither a global      *)
(* binding nor a module declaration, whatever declareGlobalVar is; with    *)
(* one, it holds the module declaration for that name, and the global      *)
(* binding exactly when declareGlobalVar is set.                           *)
(***************************************************************************)
ResolvedMainExport ==
  IF config.mainExport # Null THEN config.mainExport
  ELSE IF /\ detectedMainExport # Null
          /\ \E k \in 1..Len(KeptClasses) : KeptClasses[k].name = detectedMainExport
       THEN detectedMainExport
       ELSE Null

HasGlobalBinding ==
  \E i \in LineStarts(declaration) :
    LineStartsWith(declaration, i, <<"declare", " ", "const", " ">>)
HasModuleDeclaration ==
  \E i \in LineStarts(declaration) :
    LineStartsWith(declaration, i, <<"declare", " ", "module", " ">>)

SectionAt(text, i) ==
  IF LineStartsWith(text, i, <<"type", " ">>) THEN 1
  ELSE IF LineStartsWith(text, i, <<"declare", " ", "enum", " ">>) THEN 2
  ELSE IF LineStartsWith(text, i, <<"interface", " ">>) THEN 3
  ELSE IF LineStartsWith(text, i, <<"declare", " ", "const", " ">>) THEN 4
  ELSE IF LineStartsWith(text, i, <<"declare", " ", "module", " ">>) THEN 5
  ELSE 0

SectionsPresent == {SectionAt(declaration, i) : i \in LineStarts(declaration)}

C10_SectionOrder ==
  phase = "generated" =>
    LET heads == {i \in LineStarts(declaration) : SectionAt(declaration, i) # 0}
    IN /\ \A a, b \in heads :
            a < b => SectionAt(declaration, a) <= SectionAt(declaration, b)
       /\ Cardinality({i \in heads : SectionAt(declaration, i) = 1}) = Len(aliases)
       /\ Cardinality({i \in heads : SectionAt(declaration, i) \in {2, 3}})
            = Len(KeptClasses)
       /\ \A k \in 1..Len(KeptClasses) :
            EmittedAsEnum(KeptClasses[k].name) \/ EmittedAsInterface(KeptClasses[k].name)

\* a declaration holding all five sections
C10_Witness ==
  /\ phase = "generated"
  /\ SectionsPresent = 0..5

(***************************************************************************)
(* C11: filterClasses keeps exactly the classes whose name equals a        *)
(* pattern that has no trailing "*", or starts with what precedes the "*"  *)
(* of a pattern that has one; the kept classes are classes of the parse    *)
(* result, unchanged and in their order; with no pattern every class is    *)
(* kept.                                                                   *)
(***************************************************************************)
\* name and pattern are character sequences
PatternAdmits(pattern, name) ==
  IF pattern # <<>> /\ pattern[Len(pattern)] = "*"
  THEN \A k \in 1..(Len(pattern) - 1) : k <= Len(name) /\ name[k] = pattern[k]
  ELSE name = pattern

Admitted(cls) ==
  \/ config.filterClasses = <<>>
  \/ \E k \in 1..Len(config.filterClasses) :
       PatternAdmits(Spell(config.filterClasses[k]), Spell(cls.name))

C11_FilterKeepsAdmittedInOrder ==
  phase = "filtered" =>
    /\ \A i \in 1..Len(classes) :
         Admitted(classes[i]) <=> \E j \in 1..Len(filtered) : filtered[j] = classes[i]
    /\ \A j \in 1..Len(filtered) : \E i \in 1..Len(classes) : classes[i] = filtered[j]
    /\ \A j, k \in 1..Len(filtered) :
         j < k => ClassIndex(classes, filtered[j].name) < ClassIndex(classes, filtered[k].name)
    /\ config.filterClasses = <<>> => filtered = classes

\* foo_bar is kept by the prefix pattern alone, point is dropped, the order stands
C11_Witness ==
  /\ phase = "filtered"
  /\ config.filterClasses = << <<"foo", "*">> >>
  /\ [i \in 1..Len(classes) |-> classes[i].name]
       = << <<"foo_bar">>, <<"point">>, <<"foo">> >>
  /\ [i \in 1..Len(filtered) |-> filtered[i].name] = << <<"foo_bar">>, <<"foo">> >>

(***************************************************************************)
(* Claims about the batch loop of main.                                    *)
(***************************************************************************)
\* the number of visited entries whose outcome is `result`
CountOf(result) == Cardinality({i \in DOMAIN processed : processed[i].outcome = result})

\* the entries main was asked to process, in the order it visits them
ModulesToProcess ==
  IF targetModule = Null THEN MODULES
  ELSE IF ModuleConfig(targetModule) = Null THEN <<>>
  ELSE <<[modulePath |-> targetModule, config |-> ModuleConfig(targetModule)]>>

\* the file of the unit being processed was read and parsed, and no class came out
ParsedNoClass == phase \notin {"main", "loop", "start"} /\ lines # <<>> /\ Len(classes) = 0

\* C12: a unit whose parse extracts zero classes ends as skipped: once past the
\* test, its entry of `processed` says skipped, no declaration has been
\* generated or patched, nothing has been written for it, and the three
\* counters count the skipped, failed and generated units (so the skip raised
\* skipCount and not errorCount).
C12_ZeroClassesIsSkipped ==
  /\ (ParsedNoClass /\ phase # "parsed") =>
       /\ processed # <<>>
       /\ processed[Len(processed)] = [modulePath |-> modulePath, outcome |-> "skipped"]
       /\ declaration = Null
       /\ \A i \in DOMAIN written : written[i].modulePath # modulePath
  /\ ParsedNoClass => phase \in {"parsed", "skipped", "exited"}
  /\ skipCount = CountOf("skipped")
  /\ errorCount = CountOf("error")
  /\ successCount = CountOf("generated")

\* a unit was written, one failed, and the third came out of the parser without a class
C12_Witness ==
  /\ phase = "skipped" /\ ParsedNoClass
  /\ skipCount = 1 /\ errorCount = 1 /\ successCount = 1

\* C13: a unit that ends in error does not stop the batch: the entries visited
\* so far are the first entries of modulesToProcess in registry order, after a
\* failed unit every later entry is still waiting in that order, and when main
\* returns every entry has been visited.
C13_ErrorDoesNotStopBatch ==
  /\ Len(processed) <= Len(ModulesToProcess)
  /\ \A i \in DOMAIN processed : processed[i].modulePath = ModulesToProcess[i].modulePath
  /\ phase = "failed" =>
       queue = SubSeq(ModulesToProcess, Len(processed) + 1, Len(ModulesToProcess))
  /\ (phase = "exited" /\ exitCode = 0) => Len(processed) = Len(ModulesToProcess)

\* the first unit failed and both later ones were visited, the last one written
C13_Witness ==
  /\ phase = "exited" /\ exitCode = 0
  /\ Len(processed) = 3
  /\ processed[1].outcome = "error"
  /\ processed[3].outcome = "generated"
  /\ written # <<>>

\* C14: when the batch has run to its end, the exit status of the process is
\* non-zero if and only if at least one unit ended in error.
C14_ExitStatusReportsErrors ==
  (phase = "exited" /\ ModulesToProcess # <<>>) => (exitCode # 0 <=> errorCount > 0)

(***************************************************************************)
(* Claims about post-processing.                                           *)
(***************************************************************************)
\* the patch registered for a module path; no patch is the identity
RegisteredPatch(path, text) ==
  CASE path = <<"common/izi_sdk">> -> postProcessIziSdk(text, OUTPUT_DIR)
    [] path = <<"common/ow_menu_api">> -> postProcessOwMenuApi(text)
    [] path = <<"common/utility/kick_external_filters_helper">> ->
         postProcessKickExternalFiltersHelper(text)
    [] path = <<"common/utility/spell_sequence_helper">> -> postProcessSpellSequenceHelper(text)
    [] OTHER -> text

\* C15: applyPostProcessing changes the text of a module only through the patch
\* registered for exactly that module path: the patched text is the result of
\* that patch on the generated text, and the generated text itself for a path
\* that has no patch.
C15_OnlyRegisteredPatch ==
  [][phase' = "patched" => declaration' = RegisteredPatch(modulePath, declaration)]_vars

\* a module without patch went through with a text another module's patch would change
C15_Witness ==
  /\ phase = "patched"
  /\ modulePath = <<"core">>
  /\ postProcessKickExternalFiltersHelper(declaration) # declaration
  /\ postProcessOwMenuApi(declaration) # declaration

\* C16: every patch is idempotent: patching a patched text again changes nothing.
C16_PatchIsIdempotent ==
  phase = "patched" => applyPostProcessing(modulePath, declaration) = declaration

(***************************************************************************)
(* Claims about the members of a class and about non-doc lines.            *)
(***************************************************************************)
\* C17: after any sequence of lines, no class has a name both among its
\* methods (fields) and among its data members (dataFields).
C17_MethodOrDataOnce ==
  \A i \in 1..Len(classes) :
    \A a \in 1..Len(classes[i].fields) :
      \A b \in 1..Len(classes[i].dataFields) :
        classes[i].fields[a].name # classes[i].dataFields[b].name

\* the line the step has consumed
Consumed == lines'[Len(lines')]

\* a step of the line loop
Step == lines' = Append(lines, Consumed)

\* a non-doc line that is blank, a plain comment or starts with `_G.`
IsNoOpForm(l) ==
  /\ ~IsDocLine(Trim(l))
  /\ \/ Trim(l) = <<>>
     \/ StartsWith(Trim(l), <<"-", "-">>)
     \/ StartsWith(Trim(l), <<"_G", ".">>)

\* a non-doc line that is neither of those nor a function declaration
IsOtherLine(l) ==
  /\ ~IsDocLine(Trim(l))
  /\ ~IsNoOpForm(l)
  /\ ~IsDotLine(l) /\ ~IsColonLine(l)

\* a line of the form Outer.Inner = {}
IsAssignmentLine(l) == subclassAssignMatch(Trim(l)).ok

\* the step cleared the pending context and attached nothing
Flushes ==
  /\ pendingParams' = <<>> /\ pendingReturn' = Null /\ currentDescription' = <<>>
  /\ classes' = classes /\ aliases' = aliases

\* the data fields of the class called name, none when there is no such class
DataFieldsOf(cs, name) == IF HasClass(cs, name) THEN GetClass(cs, name).dataFields ELSE <<>>

\* the step recorded Inner as a data field of Outer, typed as the active class,
\* and left the pending context as it was
RecordsNestedType(l) ==
  LET m == subclassAssignMatch(Trim(l))
  IN /\ UNCHANGED <<pendingParams, pendingReturn, currentDescription, currentClass, aliases>>
     /\ HasClass(classes', m.parentClassName)
     /\ DataFieldsOf(classes', m.parentClassName) =
          Append(DataFieldsOf(classes, m.parentClassName),
                 [name |-> m.fieldName, type |-> currentClass, description |-> Null,
                  optional |-> FALSE])

\* C18 as stated: every non-doc line that is not blank, not a plain comment,
\* not `_G.`-prefixed and not a function declaration flushes, a bare
\* Outer.Inner = {} line included.
C18_OtherLineFlushes ==
  [][(Step /\ IsOtherLine(Consumed)) => Flushes]_vars

\* C18 amended: such a line flushes, except a bare Outer.Inner = {} line while
\* a class is active: that one records Inner as a data field of Outer and
\* leaves pendingParams, pendingReturn and currentDescription as they were.
C18_OtherLineFlushesUnlessNestedType ==
  [][(Step /\ IsOtherLine(Consumed)) =>
       IF IsAssignmentLine(Consumed) /\ currentClass # Null
       THEN RecordsNestedType(Consumed)
       ELSE Flushes]_vars

\* a pending parameter survived an assignment line that recorded a nested type
C18_Witness ==
  /\ lines = <<LClass, LParamX, LSub>>
  /\ Len(pendingParams) = 1
  /\ Len(GetClass(classes, <<"point">>).dataFields) = 1

\* C19: a non-doc line that is blank, a plain comment or `_G.`-prefixed leaves
\* classes, aliases, detectedMainExport, currentClass, pendingParams,
\* pendingReturn and currentDescription unchanged, whatever the state.
C19_SkippedLineIsNoOp ==
  [][(Step /\ IsNoOpForm(Consumed)) =>
       UNCHANGED <<classes, aliases, detectedMainExport, currentClass, pendingParams,
                   pendingReturn, currentDescription>>]_vars

\* the name and the type of a function-typed @field line
FunField(l) ==
  LET m == fieldMatch(LineContent(Trim(l)))
  IN IF IsDocLine(Trim(l)) /\ m.ok /\ IsFunType(Trim(m.type))
     THEN [ok |-> TRUE,
           name |-> IF EndsWith(m.name, <<"?">>) THEN SubSeq(m.name, 1, Len(m.name) - 1)
                    ELSE m.name,
           type |-> Trim(m.type)]
     ELSE NoMatch

\* the positions of the methods of the active class called name
MethodsCalled(name) ==
  {i \in 1..Len(GetClass(classes, currentClass).fields) :
     GetClass(classes, currentClass).fields[i].name = name}

\* C20: a function-typed @field for a name the active class already has as a
\* method replaces the existing entry in place only if the new type has a self
\* receiver and the existing one has none; otherwise the existing entry stays
\* and the new one is dropped.  Either way the class has as many methods as
\* before and every other entry is untouched.
C20_MethodCollisionRule ==
  [][(Step /\ currentClass # Null /\ FunField(Consumed).ok
        /\ MethodsCalled(FunField(Consumed).name) # {}) =>
       LET new == FunField(Consumed)
           old == GetClass(classes, currentClass).fields
           now == GetClass(classes', currentClass).fields
           idx == CHOOSE i \in MethodsCalled(new.name) :
                    \A j \in MethodsCalled(new.name) : i <= j
       IN /\ Len(now) = Len(old)
          /\ \A i \in 1..Len(old) : i # idx => now[i] = old[i]
          /\ now[idx] = IF HasSelf(new.type) /\ ~HasSelf(old[idx].type)
                        THEN [name |-> new.name, type |-> new.type,
                              description |-> DescriptionOf(ParserState), isMethod |-> TRUE]
                        ELSE old[idx]]_vars

\* the method f declared without receiver was replaced by the one with self
C20_Witness ==
  /\ lines = <<LClass, LFieldFunPlain, LFieldFun>>
  /\ Len(GetClass(classes, <<"point">>).fields) = 1
  /\ HasSelf(GetClass(classes, <<"point">>).fields[1].type)

(***************************************************************************)
(* Claims about the return clause of a function type.                      *)
(***************************************************************************)
\* the parts of a function type parseFunType works on: the parameter list
\* and the return clause after its clean-up (comment and description cut off)
FunParts(luaType) ==
  LET startParen == IndexOf(luaType, <<"(">>)
      endParen == IF startParen = 0 THEN 0 ELSE findMatchingParen(luaType, startParen)
      rest == Trim(From(luaType, endParen + 1))
      r0 == Trim(From(rest, 2))
      luaCommentIdx == IndexOf(r0, <<" ", "-", "-">>)
      r1 == IF luaCommentIdx # 0 THEN Trim(SubSeq(r0, 1, luaCommentIdx - 1)) ELSE r0
      descIdx == CapMatch(r1)
  IN [parsed |-> startParen # 0 /\ endParen # 0,
      hasReturn |-> startParen # 0 /\ endParen # 0 /\ StartsWith(rest, <<":">>),
      paramsStr |-> SubSeq(luaType, startParen + 1, endParen - 1),
      returnStr |-> IF descIdx # 0 THEN Trim(SubSeq(r1, 1, descIdx - 1)) ELSE r1]

\* a word, blanks, and another word
HasWordBlankWord(s) ==
  \E i \in 1..Len(s) :
    IsWord(s[i]) /\ At(s, i + 1) = " " /\ IsWord(At(s, SkipBlanks(s, i + 1)))

\* the rendered function type with `ret` as its return type
RenderedWith(luaType, ret) ==
  <<"(">> \o Join(TsParams(parseParams(FunParts(luaType).paramsStr)), <<",", " ">>)
    \o <<")", " ", "=>", " ">> \o ret

\* C21: when the return clause of a function type, after clean-up, still holds
\* a word followed by blanks and another word, the rendered return type is any.
C21_EmbeddedDescriptionIsAny ==
  (translated /\ IsFunType(srcType) /\ FunParts(srcType).hasReturn
     /\ HasWordBlankWord(FunParts(srcType).returnStr)) =>
    funType = RenderedWith(srcType, <<"any">>)

(***************************************************************************)
(* Claims about the directive handlers of the line loop.                   *)
(***************************************************************************)
\* a doc line whose content starts with @ and that no directive handler takes
\* in the current state
IsUnmatchedDirective(l) ==
  LET c == LineContent(Trim(l))
  IN /\ IsDocLine(Trim(l))
     /\ StartsWith(c, <<"@">>)
     /\ ~typeMatch(c).ok /\ ~aliasMatch(c).ok /\ ~classMatch(c).ok
     /\ ~paramMatch(c).ok /\ ~returnMatch(c).ok
     /\ (indexSigMatch(c).ok \/ fieldMatch(c).ok) => currentClass = Null

\* C22: a doc line that starts with @ and matches no directive pattern (or is
\* an @field line while no class is active) changes nothing of the parser state.
C22_UnmatchedDirectiveHasNoEffect ==
  [][(Step /\ IsUnmatchedDirective(Consumed)) =>
       UNCHANGED <<classes, aliases, detectedMainExport, currentClass, pendingParams,
                   pendingReturn, currentDescription>>]_vars

\* a description and a parameter are pending, then `@field x integer` with no
\* class active, then `@param x` without a type: both are still pending
C22_Witness ==
  /\ lines = <<LText, LParamX, LFieldX>> \/ lines = <<LText, LParamX, LParamBare>>
  /\ currentClass = Null /\ classes = <<>>
  /\ currentDescription = <<<<"the", " ", "length">>>>
  /\ Len(pendingParams) = 1

\* the last method of the class called name
LastMethod(cs, name) == GetClass(cs, name).fields[Len(GetClass(cs, name).fields)]

\* the annotation lines that a declaration line has consumed and that are
\* followed by a second declaration line: <<annotation, second declaration>>
AttachedBefore ==
  LET kinds == KindsFrom(FreshParser, lines)
      decl == {"dotDeclaration", "colonDeclaration"}
  IN {p \in (1..Len(lines)) \X (1..Len(lines)) :
        /\ kinds[p[1]] \in {"param", "return", "description"}
        /\ kinds[p[2]] \in decl
        /\ \E j \in (p[1] + 1)..(p[2] - 1) : kinds[j] \in decl}

\* the method the second declaration attaches is the one it attaches when the
\* annotation line is not in the file
NoAnnotationAttachedTwice ==
  \A p \in AttachedBefore :
    LET upTo == SubSeq(lines, 1, p[2])
        name == DeclaredClass(lines[p[2]])
    IN LastMethod(ParseLines(FreshParser, upTo).classes, name) =
         LastMethod(ParseLines(FreshParser, Without(upTo, p[1])).classes, name)

\* C24: a function-declaration line (dot or colon form) leaves pendingParams
\* empty, pendingReturn unset and currentDescription empty, and no annotation
\* line contributes to the methods of two declaration lines.
C24_DeclarationClearsPending ==
  /\ [][(Step /\ (IsDotLine(Consumed) \/ IsColonLine(Consumed))) =>
          (pendingParams' = <<>> /\ pendingReturn' = Null /\ currentDescription' = <<>>)]_vars
  /\ []NoAnnotationAttachedTwice

\* @param x number, then two declarations of point.length(x): the first has
\* x: number, the second x: any
C24_Witness ==
  /\ lines = <<LParamX, LDot, LDot>>
  /\ AttachedBefore = {<<1, 3>>}
  /\ pendingParams = <<>> /\ pendingReturn = Null /\ currentDescription = <<>>
  /\ GetClass(classes, <<"point">>).fields[1].type =
       <<"fun", "(", "x", ":", " ", "number", ")", ":", " ", "void">>
  /\ GetClass(classes, <<"point">>).fields[2].type =
       <<"fun", "(", "x", ":", " ", "any", ")", ":", " ", "void">>

\* an @return line and its text
IsReturnLine(l) == IsDocLine(Trim(l)) /\ returnMatch(LineContent(Trim(l))).ok
ReturnText(l) == Trim(returnMatch(LineContent(Trim(l))).text)

\* a type expression without free text: every blank is next to a `|` or
\* follows a comma, and the brackets are balanced
IsTypeOnly(t) ==
  /\ t # <<>>
  /\ Balanced(t)
  /\ \A i \in 1..Len(t) :
       t[i] = " " => (At(t, i - 1) \in {"|", ","} \/ At(t, i + 1) = "|")

\* C25: an @return line whose text is only a type expression stores exactly
\* that type expression in pendingReturn.
C25_TypeOnlyReturnStoredWhole ==
  [][(Step /\ IsReturnLine(Consumed) /\ IsTypeOnly(ReturnText(Consumed))) =>
       pendingReturn' = ReturnText(Consumed)]_vars

\* the names of the entries of classes and of aliases
ClassNames(cs) == {cs[i].name : i \in 1..Len(cs)}
AliasNames(as) == {as[i].name : i \in 1..Len(as)}

\* C26: when currentClass is set, classes has an entry of that name, and no
\* step of the line loop removes an entry of classes or of aliases.
C26_CurrentClassExists ==
  [][/\ currentClass' # Null => HasClass(classes', currentClass')
     /\ ClassNames(classes) \subseteq ClassNames(classes')
     /\ AliasNames(aliases) \subseteq AliasNames(aliases')]_vars

\* @class point, an alias, then @field x integer: the handler found the class
C26_Witness ==
  /\ lines = <<LClass, LAlias, LFieldX>>
  /\ currentClass = <<"point">>
  /\ ClassNames(classes) = {<<"point">>} /\ AliasNames(aliases) = {<<"id">>}
  /\ Len(GetClass(classes, currentClass).dataFields) = 1

(***************************************************************************)
(* Claims about convertLuaAliasToTS.                                       *)
(***************************************************************************)
\* a union at top level of which at least one alternative is a function type
IsUnionWithFunAlternative(t) ==
  LET alts == TopLevelParts(t, "|")
  IN /\ Balanced(t)
     /\ Len(alts) >= 2
     /\ \E i \in 1..Len(alts) : IsFunType(alts[i])

\* C23: for an alias body that is a top-level union with a function-type
\* alternative, no function arrow of the emitted union lies outside every
\* pair of brackets.
C23_FunAlternativesParenthesized ==
  (translated /\ IsUnionWithFunAlternative(srcType)) =>
    TopLevelAt(aliasTs, "=>") = {}

(***************************************************************************)
(* Claims about the recursion of convertLuaTypeToTS and parseFunType.      *)
(***************************************************************************)
\* the set of the members of a sequence of parts, each trimmed
TrimmedParts(parts) == {Trim(parts[i]) : i \in 1..Len(parts)}

\* the arguments of the calls of convertLuaTypeToTS that parseFunType makes
FunCallArgs(t) ==
  LET fp == FunParts(t)
      params == parseParams(fp.paramsStr)
      returnParts == splitByComma(fp.returnStr)
  IN IF ~fp.parsed THEN {}
     ELSE {params[i].type : i \in {k \in 1..Len(params) : params[k].name # <<"self">>}}
            \cup (IF ~fp.hasReturn THEN {}
                  ELSE IF Len(returnParts) > 1 THEN TrimmedParts(returnParts)
                  ELSE {fp.returnStr})

\* the arguments of the calls of convertLuaTypeToTS made for the input luaType,
\* directly or through parseFunType
CallArgs(luaType) ==
  LET t == StripComment(luaType)
  IN IF t = <<>> \/ t = <<"nil">> THEN {}
     ELSE IF HasNilSuffix(t) THEN {Trim(SubSeq(t, 1, LastIndexOf(t, <<"|">>) - 1))}
     ELSE IF IsPrimitive(t) THEN {}
     ELSE IF IsOptional(t) THEN {SubSeq(t, 1, Len(t) - 1)}
     ELSE IF IsUnion(t) THEN TrimmedParts(splitUnion(t))
     ELSE IF IsParenthesized(t)
     THEN LET inner == SubSeq(t, 2, Len(t) - 1)
          IN IF Len(splitByComma(inner)) > 1 THEN TrimmedParts(splitByComma(inner))
             ELSE {inner}
     ELSE IF IsArray(t) THEN {SubSeq(t, 1, Len(t) - 2)}
     ELSE IF IsTableOf(t) THEN TrimmedParts(splitByComma(SubSeq(t, 3, Len(t) - 1)))
     ELSE IF IsFunType(t) THEN FunCallArgs(t)
     ELSE {}

\* every call below luaType has an argument strictly shorter than its caller's
RECURSIVE Decreasing(_)
Decreasing(luaType) ==
  \A a \in CallArgs(luaType) : Len(a) < Len(luaType) /\ Decreasing(a)

\* the depth of the recursion below luaType
RECURSIVE CallDepth(_)
CallDepth(luaType) ==
  IF CallArgs(luaType) = {} THEN 0
  ELSE LET below == {CallDepth(a) : a \in CallArgs(luaType)}
       IN 1 + CHOOSE d \in below : \A e \in below : e <= d

\* C28: every call of convertLuaTypeToTS made for an input, directly or through
\* parseFunType, has an argument strictly shorter than the caller's input; an
\* expression that no rule recognizes is returned as it is, and a function
\* type without a matching parenthesis gives the generic callable.
C28_RecursionDecreases ==
  translated =>
    /\ Decreasing(srcType)
    /\ (FirstRule(srcType) = 11 /\ StripComment(srcType) = srcType) => tsType = srcType
    /\ (IsFunType(srcType) /\ ~FunParts(srcType).parsed) => funType = GenericCallable
    /\ (FirstRule(srcType) = 10 /\ StripComment(srcType) = srcType
          /\ ~FunParts(srcType).parsed) => tsType = GenericCallable

\* a function type without a parenthesis, inside a tuple
C28_WitnessUnparsed ==
  /\ translated
  /\ srcType = <<"(", "fun", " ", "x", ")">>
  /\ tsType = GenericCallable

\* a?[] : the array rule calls on a?, the optional rule on a, and a is
\* returned as it is
C28_Witness ==
  /\ translated
  /\ srcType = <<"a", "?", "[", "]">>
  /\ CallArgs(srcType) = {<<"a", "?">>}
  /\ CallDepth(srcType) = 2
  /\ FirstRule(<<"a">>) = 11
  /\ tsType = <<"a", " ", "|", " ", "undefined", "[", "]">>

(***************************************************************************)
(* Claims about the counters of the batch loop.                            *)
(***************************************************************************)
\* the module paths of the entries of a sequence of records
PathsOf(entries) == [i \in DOMAIN entries |-> entries[i].modulePath]

\* the entries of modulesToProcess the loop has finished with
Visited == SubSeq(ModulesToProcess, 1, Len(ModulesToProcess) - Len(queue))

\* C27: at every loop boundary the three counters add up to the number of
\* entries visited so far, every visited entry has one outcome, and the files
\* written are those of the entries counted in successCount, one each.
C27_OneOutcomePerUnit ==
  phase \in LoopHead =>
    /\ successCount + skipCount + errorCount = Len(Visited)
    /\ PathsOf(processed) = PathsOf(Visited)
    /\ \A i \in DOMAIN processed : processed[i].outcome \in {"generated", "skipped", "error"}
    /\ successCount = CountOf("generated")
    /\ PathsOf(written) = PathsOf(SelectSeq(processed, LAMBDA e : e.outcome = "generated"))
    /\ Len(written) = successCount

\* three units visited: one of each outcome, and one file written
C27_Witness ==
  /\ phase \in LoopHead /\ queue = <<>>
  /\ Len(Visited) = 3
  /\ successCount = 1 /\ skipCount = 1 /\ errorCount = 1
  /\ Len(written) = 1
  /\ processed[2].outcome = "generated" /\ written[1].modulePath = processed[2].modulePath

(***************************************************************************)
(* Claims about the names bound by the declaration.                        *)
(***************************************************************************)
\* the declaration binds the global constant, or the default export of the
\* module, to the type called name
BindsName(name) ==
  \/ HasLine(declaration, <<"declare", " ", "const", " ">> \o name \o <<":", " ">> \o name
                            \o <<";">>)
  \/ HasLine(declaration, <<" ", " ", "const", " ", "_default", ":", " ">> \o name \o <<";">>)

\* the names a declaration can bind: the configured one and the classes parsed
BindableNames ==
  ClassNames(classes) \cup (IF config.mainExport # Null THEN {config.mainExport} ELSE {})
    \cup (IF detectedMainExport # Null THEN {detectedMainExport} ELSE {})

\* C29: a name bound by the global-binding or the module declaration is
\* declared in the same unit as an interface or an enum, and is a class of the
\* filtered set.
C29_BoundNameIsDeclared ==
  phase = "generated" =>
    \A name \in BindableNames :
      BindsName(name) =>
        /\ EmittedAsInterface(name) \/ EmittedAsEnum(name)
        /\ HasClass(KeptClasses, name)

(***************************************************************************)
(* Claims about build-rotation.js, stated over the steps that have run.    *)
(***************************************************************************)
\* the place of a step in buildRotation
StepRank(name) ==
  CASE name = "verify" -> 0
    [] name = "mkdir" -> 1
    [] name = "header" -> 2
    [] name = "transpile" -> 3
    [] name = "copy" -> 4
    [] name = "bundle" -> 5

\* the rotations main was to build
BuildList ==
  IF targetRotation # Null
  THEN IF \E i \in DOMAIN availableRotations : availableRotations[i] = targetRotation
       THEN {targetRotation}
       ELSE {}
  ELSE {availableRotations[i] : i \in DOMAIN availableRotations}

\* the rotations one of whose steps failed
FailedRotations == {steps[i].rotation : i \in {j \in DOMAIN steps : ~steps[j].ok}}

\* the rotations buildRotation was called for
AttemptedRotations == {steps[i].rotation : i \in DOMAIN steps}

StepsInOrder ==
  \A i, j \in DOMAIN steps :
    (i < j /\ steps[i].rotation = steps[j].rotation)
      => StepRank(steps[i].step) < StepRank(steps[j].step)

FailingStepIsLast ==
  \A i, j \in DOMAIN steps :
    (i < j /\ ~steps[i].ok) => steps[j].rotation # steps[i].rotation

FailingStepReturnsFalse ==
  step \in {"loop", "exited"} => failCount = Cardinality(FailedRotations)

EveryRotationAttempted ==
  (step = "exited" /\ BuildList # {}) => AttemptedRotations = BuildList

ExitOneIffFailed ==
  step = "exited" => (buildExit = 1 <=> FailedRotations # {})

\* C30: the steps of one rotation run in the order header transpile, main
\* transpile, header copy/fix, bundle-or-copy; a failing step makes
\* buildRotation return false (the rotation is counted in failCount) and no
\* later step of that rotation runs; every rotation of the build list is
\* attempted even after an earlier one failed; and the process exits with
\* status 1 exactly when at least one rotation failed.
C30_FailuresAreCountedAndBuildGoesOn ==
  /\ StepsInOrder
  /\ FailingStepIsLast
  /\ FailingStepReturnsFalse
  /\ EveryRotationAttempted
  /\ ExitOneIffFailed

\* the part of C30 that the try blocks of buildRotation do give
C30_CaughtFailuresGoOn ==
  /\ StepsInOrder
  /\ FailingStepIsLast
  /\ (\A i \in DOMAIN steps : ~steps[i].ok => steps[i].step \notin {"mkdir", "copy"}
        /\ (steps[i].step = "bundle" => ~debugMode))
       => /\ FailingStepReturnsFalse
          /\ (targetRotation \in {Null} \cup BuildList => EveryRotationAttempted /\ ExitOneIffFailed)

====
